---- MODULE Spec2Model ----
(***************************************************************************)
(* Data Doctor: contract self-validation, the validation and remediation   *)
(* engines, the column tests, robust date parsing and the wizard that      *)
(* drives them, modelled from the Python sources under src/.               *)
(*                                                                         *)
(* Python values are represented as follows.                               *)
(*   None (for string-valued fields)  the token NONE                       *)
(*   Optional[record]                 <<>> for None, <<r>> for r           *)
(*   str cell values                  sequences of one-character strings   *)
(*   list                             sequence, Python index k = TLA k+1   *)
(***************************************************************************)
EXTENDS Integers, Sequences, FiniteSets, TLC

VARIABLES
    \* ---- contract self-validation (src/src/contract/validator.py)
    cv_contract,        \* the Contract handed to validate_contract
    cv_result,          \* <<>> before the call, <<ContractValidationResult>> after
    \* ---- one column test (src/src/validation/column_tests.py)
    col_input,          \* [series, test_type, data_type, params] of the calls
    col_seed,           \* the hash seed of the running Python process
    col_runs,           \* the ColumnTestResults returned so far, in call order
    \* ---- date parsing (src/src/presets/date_formats.py)
    dt_input,           \* [value, accepted_formats, excel_serial_enabled]
    dt_out,             \* <<>> before the call, <<[call, parsed, matched, failed]>> after
    \* ---- the engines (src/src/validation/engine.py, src/src/remediation/engine.py)
    eng_heap,           \* the DataFrame objects that exist
    eng_args,           \* [df, fk_dataframe, contract, seed]: the call's arguments
    eng_before,         \* the table and contract as they were before the call
    eng_out,            \* <<>> before the call, <<[fn, raised, exc, value]>> after
    \* ---- the wizard's st.session_state (src/src/session.py, src/src/ui/*.py)
    session,            \* record of the session_state keys the steps read and write
    last_call,          \* <<>> or <<[fn, contract]>>: the latest engine invocation
    \* ---- upload rate limiting (src/src/session.py, src/src/ui/step_upload.py)
    up_session,         \* the session_state keys the upload page and the limiter use
    up_now,             \* time.time(), in seconds
    up_log              \* the times of the uploads that passed validate_upload

cvVars   == <<cv_contract, cv_result>>
colVars  == <<col_input, col_seed, col_runs>>
dateVars == <<dt_input, dt_out>>
engVars  == <<eng_heap, eng_args, eng_before, eng_out>>
wizVars  == <<session, last_call>>
upVars   == <<up_session, up_now, up_log>>
vars     == <<cvVars, colVars, dateVars, engVars, wizVars, upVars>>

NONE == "<None>"

\* Python truthiness of an Optional[str]: None and "" are falsy.
Falsy(x) == x = NONE \/ x = ""

RECURSIVE SeqToSet(_)
SeqToSet(s) == IF s = <<>> THEN {} ELSE {Head(s)} \cup SeqToSet(Tail(s))

RECURSIVE Sum(_)
Sum(seq) == IF seq = <<>> THEN 0 ELSE Head(seq) + Sum(Tail(seq))

RECURSIVE Flatten(_)
Flatten(ss) == IF ss = <<>> THEN <<>> ELSE Head(ss) \o Flatten(Tail(ss))

(***************************************************************************)
(* src/src/constants.py                                                    *)
(***************************************************************************)
DATA_TYPES == {"string", "boolean", "integer", "float", "date", "timestamp"}

FAILURE_ACTIONS ==
    {"strict_fail", "set_null", "label_failure", "quarantine_row", "drop_row"}

SEVERITY_LEVELS == {"error", "warning"}

COLUMN_TEST_TYPES ==
    {"not_null", "type_conformance", "range", "length", "enum", "uniqueness",
     "monotonic", "cardinality_warning", "pattern", "date_rule", "date_window"}

DATASET_TEST_TYPES ==
    {"duplicate_rows", "primary_key_completeness", "primary_key_uniqueness",
     "composite_key_uniqueness", "cross_field_rule", "outliers_iqr",
     "outliers_zscore"}

REMEDIATION_TYPES ==
    {"trim_whitespace", "standardize_nulls", "normalize_case",
     "remove_non_printable", "deduplicate_rows", "numeric_cleanup",
     "boolean_normalization", "date_coerce", "categorical_standardize",
     "split_column", "custom_calculation"}

(***************************************************************************)
(* src/src/contract/schema.py: the dataclasses, with their defaults.       *)
(***************************************************************************)
FailureHandling(action, label, quarantine) ==
    [action |-> action, label_column_name |-> label,
     quarantine_export_name |-> quarantine]

DefaultFailureHandling == FailureHandling("strict_fail", NONE, NONE)

\* The params keys validate_contract and the column tests read.
\* accepted_input_formats is [present, is_list, items]: whether the key is
\* there, whether its value is a list, and the format names it holds.
\* allow_nulls and excel_serial_enabled hold the value params.get returns
\* when the key is absent.
TestParams(target_format, mode, accepted, direction) ==
    [target_format |-> target_format, mode |-> mode,
     accepted_input_formats |-> accepted, direction |-> direction,
     allow_nulls |-> TRUE, excel_serial_enabled |-> FALSE,
     tier |-> NONE, preset_name |-> NONE, builder |-> <<>>, pattern |-> <<>>,
     not_before |-> <<>>, not_after |-> <<>>, min_date |-> <<>>, max_date |-> <<>>]

NoAccepted == [present |-> FALSE, is_list |-> FALSE, items |-> <<>>]

Accepted(is_list, items) == [present |-> TRUE, is_list |-> is_list, items |-> items]

NoTestParams == TestParams(NONE, NONE, NoAccepted, NONE)

TestConfig(type, severity, params, on_fail) ==
    [type |-> type, severity |-> severity, params |-> params, on_fail |-> on_fail]

\* normalization is <<>> (None, the default) or <<Normalization>>
Normalization(trim_whitespace, null_tokens, case, remove_non_printable) ==
    [trim_whitespace |-> trim_whitespace, null_tokens |-> null_tokens,
     case |-> case, remove_non_printable |-> remove_non_printable]

\* RemediationConfig.params, with the keys deduplicate_rows reads: subset is
\* <<>> (None, the key is absent) or <<list of column names>>, keep defaults
\* to "first"
RemediationParams(subset, keep) ==
    [subset |-> subset, keep |-> keep]

NoRemediationParams == RemediationParams(<<>>, "first")

\* remediation holds the type of each RemediationConfig and
\* remediation_params the params of each, in the same order; <<>> when the
\* params of every entry is the default empty dict.
ColumnConfig(name, data_type, fh, tests, remediation) ==
    [name |-> name, data_type |-> data_type, normalization |-> <<>>,
     failure_handling |-> fh, tests |-> tests, remediation |-> remediation,
     remediation_params |-> <<>>]

\* rem.params of the entry of col_config.remediation at position j
RemParams(col_config, j) ==
    IF col_config.remediation_params = <<>> THEN NoRemediationParams
    ELSE col_config.remediation_params[j]

\* The params keys the dataset tests and validate_contract read:
\* key_columns and all_not_null default to the empty list, column to None,
\* expression to "" (a str is a sequence of characters).  subset is <<>>
\* (None) or <<list of column names>>; multiplier and threshold are <<>>
\* (the key is absent) or <<[num, den]>>, the number as a fraction.
DatasetParams(key_columns, all_not_null, subset, column, expression) ==
    [key_columns |-> key_columns, all_not_null |-> all_not_null,
     subset |-> subset, column |-> column, expression |-> expression,
     multiplier |-> <<>>, threshold |-> <<>>]

NoDatasetParams == DatasetParams(<<>>, <<>>, <<>>, NONE, <<>>)

DatasetTest(type, severity, params, on_fail) ==
    [type |-> type, severity |-> severity, params |-> params, on_fail |-> on_fail]

ForeignKeyCheck(name, dataset_column, fk_file, fk_column, inherit, allow_nulls, on_fail) ==
    [name |-> name, dataset_column |-> dataset_column, fk_file |-> fk_file,
     fk_column |-> fk_column,
     normalization_inherit_from_dataset_column |-> inherit,
     allow_nulls |-> allow_nulls, on_fail |-> on_fail]

Contract(version, columns, dataset_tests, fks) ==
    [contract_version |-> version, contract_id |-> "id-1",
     created_at_utc |-> "2025-01-07T14:32:10Z", app_name |-> "Data Doctor",
     dataset |-> TRUE,
     columns |-> columns, dataset_tests |-> dataset_tests,
     foreign_key_checks |-> fks]

(***************************************************************************)
(* src/src/contract/validator.py                                           *)
(*                                                                         *)
(* A ValidationError is identified by its field path.  The path            *)
(*   <sec>[i].<sub>[j].<leaf>                                              *)
(* is the record [sec, i, sub, j, leaf]; an index that the path does not   *)
(* have is -1, a component it does not have is "".                         *)
(***************************************************************************)
Field(sec, i, sub, j, leaf) ==
    [sec |-> sec, i |-> i, sub |-> sub, j |-> j, leaf |-> leaf]

_validate_top_level(contract) ==
    (IF Falsy(contract.contract_version)
        THEN <<Field("contract_version", -1, "", -1, "")>> ELSE <<>>)
    \o (IF Falsy(contract.contract_id)
        THEN <<Field("contract_id", -1, "", -1, "")>> ELSE <<>>)
    \o (IF Falsy(contract.created_at_utc)
        THEN <<Field("created_at_utc", -1, "", -1, "")>> ELSE <<>>)
    \o (IF Falsy(contract.app_name)
        THEN <<Field("app", -1, "", -1, "")>> ELSE <<>>)
    \o (IF ~contract.dataset
        THEN <<Field("dataset", -1, "", -1, "")>> ELSE <<>>)
    \o (IF contract.columns = <<>>
        THEN <<Field("columns", -1, "", -1, "")>> ELSE <<>>)

\* Fault variant of _validate_failure_handling: the two name requirements are
\* raised whenever the name is missing, whatever the action.
_validate_failure_handling_any_action(fh, sec, i, sub, j, at) ==
    IF fh = <<>> THEN <<>>
    ELSE LET h == fh[1] IN
        (IF ~Falsy(h.action) /\ h.action \notin FAILURE_ACTIONS
            THEN <<Field(sec, i, sub, j, at \o ".action")>> ELSE <<>>)
        \o (IF Falsy(h.label_column_name)
            THEN <<Field(sec, i, sub, j, at \o ".label_column_name")>> ELSE <<>>)
        \o (IF Falsy(h.quarantine_export_name)
            THEN <<Field(sec, i, sub, j, at \o ".quarantine_export_name")>> ELSE <<>>)

\* fh is <<>> (None) or <<FailureHandling>>; the prefix is sec[i].sub[j].<at>
_validate_failure_handling(fh, sec, i, sub, j, at) ==
    IF fh = <<>> THEN <<>>
    ELSE LET h == fh[1] IN
        (IF ~Falsy(h.action) /\ h.action \notin FAILURE_ACTIONS
            THEN <<Field(sec, i, sub, j, at \o ".action")>> ELSE <<>>)
        \o (IF h.action = "label_failure" /\ Falsy(h.label_column_name)
            THEN <<Field(sec, i, sub, j, at \o ".label_column_name")>> ELSE <<>>)
        \o (IF h.action = "quarantine_row" /\ Falsy(h.quarantine_export_name)
            THEN <<Field(sec, i, sub, j, at \o ".quarantine_export_name")>> ELSE <<>>)

\* `if on_fail:` : a FailureHandling instance is always truthy, None is not.
_validate_test(test, sec, i, sub, j, is_column_test) ==
    (IF Falsy(test.type)
        THEN <<Field(sec, i, sub, j, "type")>>
        ELSE IF test.type \notin
                (IF is_column_test THEN COLUMN_TEST_TYPES ELSE DATASET_TEST_TYPES)
            THEN <<Field(sec, i, sub, j, "type")>> ELSE <<>>)
    \o (IF ~Falsy(test.severity) /\ test.severity \notin {"error", "warning"}
        THEN <<Field(sec, i, sub, j, "severity")>> ELSE <<>>)
    \o (IF test.on_fail # <<>>
        THEN _validate_failure_handling(test.on_fail, sec, i, sub, j, "on_fail")
        ELSE <<>>)

_validate_date_rule(test, i, j) ==
    LET params == test.params
        mode   == IF params.mode = NONE THEN "simple" ELSE params.mode
        acc    == params.accepted_input_formats
    IN  (IF Falsy(params.target_format)
            THEN <<Field("columns", i, "tests", j, "params.target_format")>>
            ELSE <<>>)
        \o (IF mode = "robust"
               /\ (~acc.present \/ acc.items = <<>> \/ ~acc.is_list)
            THEN <<Field("columns", i, "tests", j, "params.accepted_input_formats")>>
            ELSE <<>>)

\* Fault variant of SeenNames: only the column just before is remembered.
SeenNamesPreviousOnly(contract, k) ==
    {contract.columns[m].name : m \in {n \in 1..(k - 1) :
        n = k - 1 /\ ~Falsy(contract.columns[n].name)}}

\* column_names when the loop reaches column k (TLA index): the non-empty
\* names of columns 1..k-1.
SeenNames(contract, k) ==
    {contract.columns[m].name : m \in {n \in 1..(k - 1) :
        ~Falsy(contract.columns[n].name)}}

\* The errors the loop body appends for column k (TLA index).
ColumnErrors(contract, k) ==
    LET col  == contract.columns[k]
        i    == k - 1
        seen == SeenNames(contract, k)
        TestErrors(jj) ==
            _validate_test(col.tests[jj], "columns", i, "tests", jj - 1, TRUE)
            \o (IF col.tests[jj].type = "date_rule"
                THEN _validate_date_rule(col.tests[jj], i, jj - 1) ELSE <<>>)
        RemErrors(jj) ==
            IF col.remediation[jj] \notin REMEDIATION_TYPES
            THEN <<Field("columns", i, "remediation", jj - 1, "type")>> ELSE <<>>
    IN  (IF Falsy(col.name)
            THEN <<Field("columns", i, "", -1, "name")>>
            ELSE IF col.name \in seen
                THEN <<Field("columns", i, "", -1, "name")>> ELSE <<>>)
        \o (IF col.data_type \notin DATA_TYPES
            THEN <<Field("columns", i, "", -1, "data_type")>> ELSE <<>>)
        \o _validate_failure_handling(col.failure_handling, "columns", i, "", -1,
                                      "failure_handling")
        \o Flatten([jj \in 1..Len(col.tests) |-> TestErrors(jj)])
        \o Flatten([jj \in 1..Len(col.remediation) |-> RemErrors(jj)])

_validate_columns(contract) ==
    Flatten([k \in 1..Len(contract.columns) |-> ColumnErrors(contract, k)])

ColumnNames(contract) ==
    {contract.columns[k].name : k \in 1..Len(contract.columns)}

_validate_dataset_tests(contract) ==
    LET column_names == ColumnNames(contract)
        RefErrors(refs, i, leaf) ==
            Flatten([r \in 1..Len(refs) |->
                IF refs[r] \notin column_names
                THEN <<Field("dataset_tests", i, "", -1, leaf)>> ELSE <<>>])
        One(k) ==
            LET test == contract.dataset_tests[k] IN
            _validate_test(test, "dataset_tests", k - 1, "", -1, FALSE)
            \o RefErrors(test.params.key_columns, k - 1, "params.key_columns")
            \o (IF test.type = "cross_field_rule"
                THEN RefErrors(test.params.all_not_null, k - 1,
                               "params.if.all_not_null")
                ELSE <<>>)
    IN  Flatten([k \in 1..Len(contract.dataset_tests) |-> One(k)])

_validate_foreign_key_checks(contract) ==
    LET column_names == ColumnNames(contract)
        One(k) ==
            LET fk == contract.foreign_key_checks[k]
                i  == k - 1
            IN  (IF Falsy(fk.name)
                    THEN <<Field("foreign_key_checks", i, "", -1, "name")>> ELSE <<>>)
                \o (IF ~Falsy(fk.dataset_column) /\ fk.dataset_column \notin column_names
                    THEN <<Field("foreign_key_checks", i, "", -1, "dataset_column")>>
                    ELSE <<>>)
                \o (IF Falsy(fk.fk_file)
                    THEN <<Field("foreign_key_checks", i, "", -1, "fk_file")>> ELSE <<>>)
                \o (IF Falsy(fk.fk_column)
                    THEN <<Field("foreign_key_checks", i, "", -1, "fk_column")>> ELSE <<>>)
                \o (IF ~fk.normalization_inherit_from_dataset_column
                    THEN <<Field("foreign_key_checks", i, "", -1,
                                 "normalization_inherit_from_dataset_column")>>
                    ELSE <<>>)
                \o _validate_failure_handling(fk.on_fail, "foreign_key_checks", i, "",
                                              -1, "on_fail")
    IN  Flatten([k \in 1..Len(contract.foreign_key_checks) |-> One(k)])

validate_contract(contract) ==
    LET Verdict(errors) == [is_valid |-> errors = <<>>, errors |-> errors]
    IN  Verdict(_validate_top_level(contract)
                \o _validate_columns(contract)
                \o _validate_dataset_tests(contract)
                \o _validate_foreign_key_checks(contract))

(***************************************************************************)
(* Python strings and pandas cells.                                        *)
(*                                                                         *)
(* A str is a sequence of characters, each a one-character TLA+ string     *)
(* ("<BEL>" stands for one non-printable character).  A cell of a table is *)
(* a record [t, s, n]: t = "null" for None/NaN, t = "str" with the         *)
(* characters in s, t = "int" with the number in n.                        *)
(***************************************************************************)
NullCell   == [t |-> "null", s |-> <<>>, n |-> 0]
StrCell(s) == [t |-> "str", s |-> s, n |-> 0]
IntCell(n) == [t |-> "int", s |-> <<>>, n |-> n]

IsNull(x) == x.t = "null"

Digits == <<"0", "1", "2", "3", "4", "5", "6", "7", "8", "9">>

DigitSet == SeqToSet(Digits)

DigitValue(c) == CHOOSE d \in 0..9 : Digits[d + 1] = c

UpperLetters == <<"A", "B", "N">>
LowerLetters == <<"a", "b", "n">>

Whitespace == {" ", "\t"}

IsPrintable(c) == c \notin {"<BEL>", "\t"}

RECURSIVE NatToChars(_)
NatToChars(n) ==
    IF n < 10 THEN <<Digits[n + 1]>>
    ELSE NatToChars(n \div 10) \o <<Digits[(n % 10) + 1]>>

\* str(x) of a cell
PyStr(x) ==
    CASE x.t = "str" -> x.s
      [] x.t = "int" -> IF x.n < 0 THEN <<"-">> \o NatToChars(-x.n)
                        ELSE NatToChars(x.n)
      [] OTHER -> <<"N", "o", "n", "e">>

RECURSIVE LStrip(_)
LStrip(s) ==
    IF s # <<>> /\ Head(s) \in Whitespace THEN LStrip(Tail(s)) ELSE s

RECURSIVE RStrip(_)
RStrip(s) ==
    IF s # <<>> /\ s[Len(s)] \in Whitespace
    THEN RStrip(SubSeq(s, 1, Len(s) - 1)) ELSE s

\* str.strip()
Strip(s) == RStrip(LStrip(s))

MapChar(c, from, to) ==
    IF \E k \in 1..Len(from) : from[k] = c
    THEN to[CHOOSE k \in 1..Len(from) : from[k] = c] ELSE c

\* str.lower(), str.upper()
Lower(s) == [k \in 1..Len(s) |-> MapChar(s[k], UpperLetters, LowerLetters)]
Upper(s) == [k \in 1..Len(s) |-> MapChar(s[k], LowerLetters, UpperLetters)]

IsLetter(c) == c \in SeqToSet(UpperLetters) \cup SeqToSet(LowerLetters)

\* str.title(): a letter is upper-cased when no letter stands before it,
\* lower-cased otherwise.
Title(s) ==
    [k \in 1..Len(s) |->
        IF k = 1 \/ ~IsLetter(s[k - 1])
        THEN MapChar(s[k], LowerLetters, UpperLetters)
        ELSE MapChar(s[k], UpperLetters, LowerLetters)]

RECURSIVE FilterChars(_, _)
FilterChars(s, drop) ==
    IF s = <<>> THEN <<>>
    ELSE (IF Head(s) \in drop THEN <<>> ELSE <<Head(s)>>) \o FilterChars(Tail(s), drop)

IsDigits(s) == s # <<>> /\ \A k \in 1..Len(s) : s[k] \in DigitSet

RECURSIVE DigitsValue(_)
DigitsValue(s) ==
    IF s = <<>> THEN 0
    ELSE 10 * DigitsValue(SubSeq(s, 1, Len(s) - 1)) + DigitValue(s[Len(s)])

\* float(s) on the characters the model's cells are written in (digits,
\* sign, letters, blanks): [ok, nan, value], ok = FALSE for ValueError.
\* Surrounding whitespace is ignored, one leading sign is accepted, and
\* "nan" in any case is the float NaN.
ParseNumber(s0) ==
    LET s    == Strip(s0)
        neg  == s # <<>> /\ Head(s) = "-"
        body == IF s # <<>> /\ Head(s) \in {"-", "+"} THEN Tail(s) ELSE s
    IN  IF IsDigits(body)
        THEN [ok |-> TRUE, nan |-> FALSE,
              value |-> IF neg THEN -DigitsValue(body) ELSE DigitsValue(body)]
        ELSE IF Lower(body) = <<"n", "a", "n">>
        THEN [ok |-> TRUE, nan |-> TRUE, value |-> 0]
        ELSE [ok |-> FALSE, nan |-> FALSE, value |-> 0]

(***************************************************************************)
(* pandas DataFrames.                                                      *)
(*                                                                         *)
(* A table is [columns, index, data]: the column names in order, the row   *)
(* labels in order, and for every column its cells in row order.           *)
(* DataFrames are objects: the heap is a sequence of tables and a          *)
(* DataFrame variable holds an index into it.                              *)
(***************************************************************************)
Table(columns, index, data) ==
    [columns |-> columns, index |-> index, data |-> data]

\* the RangeIndex 0..n-1 a freshly read file has
RangeIndex(n) == [k \in 1..n |-> k - 1]

HasColumn(t, name) == name \in SeqToSet(t.columns)

\* df[name] = series on an existing column
SetColumn(t, name, series) ==
    [t EXCEPT !.data = [c \in DOMAIN t.data |-> IF c = name THEN series ELSE t.data[c]]]

\* Fault variant of df_copy: no copy is made, the result is the same object.
df_alias(heap, ref) == [heap |-> heap, ref |-> ref]

\* df.copy(): a new object with the same content
df_copy(heap, ref) == [heap |-> Append(heap, heap[ref]), ref |-> Len(heap) + 1]

\* ord(c) of the characters cells are written in
CodePoint(c) ==
    CASE c = "<BEL>" -> 7 [] c = "\t" -> 9 [] c = " " -> 32 [] c = "+" -> 43
      [] c = "-" -> 45 [] c = "/" -> 47
      [] c \in DigitSet -> 48 + DigitValue(c)
      [] c = "A" -> 65 [] c = "B" -> 66 [] c = "N" -> 78
      [] c = "a" -> 97 [] c = "b" -> 98 [] c = "n" -> 110

\* s1 < s2 on str: lexicographic by code point
RECURSIVE StrLess(_, _)
StrLess(s1, s2) ==
    IF s2 = <<>> THEN FALSE
    ELSE IF s1 = <<>> THEN TRUE
    ELSE IF Head(s1) # Head(s2) THEN CodePoint(Head(s1)) < CodePoint(Head(s2))
    ELSE StrLess(Tail(s1), Tail(s2))

(***************************************************************************)
(* src/src/presets/date_formats.py                                         *)
(*                                                                         *)
(* A datetime is its proleptic Gregorian ordinal (0001-01-01 is day 1); an *)
(* Optional[datetime] is <<>> or <<ordinal>>.  The format names of the     *)
(* model are keys of COMMON_DATE_FORMATS; a strftime format is the         *)
(* sequence of its directives and literal characters.                      *)
(***************************************************************************)
COMMON_DATE_FORMATS ==
    [f \in {"YYYY-MM-DD", "YYYYMMDD", "MM/DD/YYYY", "DD/MM/YYYY", "MMDDYY"} |->
        CASE f = "YYYY-MM-DD" -> <<"%Y", "-", "%m", "-", "%d">>
          [] f = "YYYYMMDD"   -> <<"%Y", "%m", "%d">>
          [] f = "MM/DD/YYYY" -> <<"%m", "/", "%d", "/", "%Y">>
          [] f = "DD/MM/YYYY" -> <<"%d", "/", "%m", "/", "%Y">>
          [] f = "MMDDYY"     -> <<"%m", "%d", "%y">>]

human_format_to_strftime(human_format) == COMMON_DATE_FORMATS[human_format]

StrptimeDirectives == {"%Y", "%y", "%m", "%d"}

\* lengths a directive's pattern can match, in the order the pattern's
\* alternatives are tried
StrptimeFieldLengths(d) ==
    CASE d = "%Y" -> <<4>> [] d = "%y" -> <<2>> [] OTHER -> <<2, 1>>

NonZeroDigits == DigitSet \ {"0"}

\* the patterns of _strptime: %Y \d\d\d\d, %y \d\d,
\* %m 1[0-2]|0[1-9]|[1-9], %d 3[01]|[12]\d|0[1-9]|[1-9]| [1-9]
StrptimeFieldMatches(d, f) ==
    CASE d = "%Y" -> Len(f) = 4 /\ IsDigits(f)
      [] d = "%y" -> Len(f) = 2 /\ IsDigits(f)
      [] d = "%m" ->
            \/ Len(f) = 2 /\ f[1] = "1" /\ f[2] \in {"0", "1", "2"}
            \/ Len(f) = 2 /\ f[1] = "0" /\ f[2] \in NonZeroDigits
            \/ Len(f) = 1 /\ f[1] \in NonZeroDigits
      [] d = "%d" ->
            \/ Len(f) = 2 /\ f[1] = "3" /\ f[2] \in {"0", "1"}
            \/ Len(f) = 2 /\ f[1] \in {"1", "2"} /\ f[2] \in DigitSet
            \/ Len(f) = 2 /\ f[1] \in {"0", " "} /\ f[2] \in NonZeroDigits
            \/ Len(f) = 1 /\ f[1] \in NonZeroDigits

\* The regular-expression match of _strptime: <<>> when the string does not
\* match the whole format, else <<fields>> with the number read for every
\* directive (-1 for a directive the format does not have).  Alternatives
\* are tried in order and the first complete match wins.
RECURSIVE StrptimeMatch(_, _, _)
StrptimeMatch(s, fmt, got) ==
    IF fmt = <<>> THEN (IF s = <<>> THEN <<got>> ELSE <<>>)
    ELSE LET d == Head(fmt)
             Try(L) ==
                IF Len(s) >= L /\ StrptimeFieldMatches(d, SubSeq(s, 1, L))
                THEN StrptimeMatch(SubSeq(s, L + 1, Len(s)), Tail(fmt),
                        [got EXCEPT ![d] =
                            DigitsValue(FilterChars(SubSeq(s, 1, L), {" "}))])
                ELSE <<>>
             lens == StrptimeFieldLengths(d)
         IN  IF d \notin StrptimeDirectives
             THEN (IF s # <<>> /\ Head(s) = d
                   THEN StrptimeMatch(Tail(s), Tail(fmt), got) ELSE <<>>)
             ELSE IF Try(lens[1]) # <<>> THEN Try(lens[1])
             ELSE IF Len(lens) > 1 THEN Try(lens[2])
             ELSE <<>>

IsLeapYear(y) == (y % 4 = 0 /\ y % 100 # 0) \/ y % 400 = 0

DaysInMonth(y, m) ==
    IF m = 2 THEN (IF IsLeapYear(y) THEN 29 ELSE 28)
    ELSE IF m \in {4, 6, 9, 11} THEN 30 ELSE 31

RECURSIVE DaysBeforeMonth(_, _)
DaysBeforeMonth(y, m) ==
    IF m = 1 THEN 0 ELSE DaysBeforeMonth(y, m - 1) + DaysInMonth(y, m - 1)

\* date(y, m, d).toordinal()
Ordinal(y, m, d) ==
    LET p == y - 1
    IN  p * 365 + (p \div 4) - (p \div 100) + (p \div 400) + DaysBeforeMonth(y, m) + d

\* datetime.strptime(s, fmt): <<>> for ValueError.  A two-digit year below
\* 69 is in 2000-2068, otherwise in 1969-1999; year 0 and a day beyond the
\* month's last are out of range.
strptime(s, fmt) ==
    LET Date(year, month, day) ==
            IF year < 1 \/ day > DaysInMonth(year, month) THEN <<>>
            ELSE <<Ordinal(year, month, day)>>
        Found(mt) ==
            IF mt = <<>> THEN <<>>
            ELSE LET g == mt[1]
                 IN  Date(IF g["%Y"] # -1 THEN g["%Y"]
                          ELSE IF g["%y"] = -1 THEN 1900
                          ELSE IF g["%y"] < 69 THEN 2000 + g["%y"]
                          ELSE 1900 + g["%y"],
                          IF g["%m"] = -1 THEN 1 ELSE g["%m"],
                          IF g["%d"] = -1 THEN 1 ELSE g["%d"])
    IN  Found(StrptimeMatch(s, fmt, [d \in StrptimeDirectives |-> -1]))

parse_date_with_format(value, human_format) ==
    strptime(Strip(value), human_format_to_strftime(human_format))

\* the largest whole number of days a pd.Timedelta holds
TimedeltaMaxDays == 106751

\* value is a whole number of days; a pd.Timedelta out of bounds raises,
\* which the function turns into None
parse_excel_serial_date(value, date_system) ==
    LET base == IF date_system = "1904" THEN Ordinal(1904, 1, 1)
                ELSE Ordinal(1899, 12, 30)
    IN  IF value > TimedeltaMaxDays \/ value < -TimedeltaMaxDays THEN <<>>
        ELSE <<base + value>>

EXCEL_SERIAL_MAX == 2958465

NoDate == [parsed |-> <<>>, matched |-> NONE]

\* the loop over accepted_formats, from position k on
RECURSIVE TryFormats(_, _, _)
TryFormats(value, accepted_formats, k) ==
    IF k > Len(accepted_formats) THEN NoDate
    ELSE LET Try(parsed) ==
                IF parsed # <<>>
                THEN [parsed |-> parsed, matched |-> accepted_formats[k]]
                ELSE TryFormats(value, accepted_formats, k + 1)
         IN  Try(parse_date_with_format(value, accepted_formats[k]))

\* Fault variant of try_parse_date_robust: the format list is tried first
\* and the Excel serial reading only when no format parses.
try_parse_date_formats_first(value0, accepted_formats, excel_serial_enabled) ==
    LET value  == Strip(value0)
        serial == ParseNumber(value)
        byfmt  == TryFormats(value, accepted_formats, 1)
    IN  IF byfmt.parsed # <<>> THEN byfmt
        ELSE IF excel_serial_enabled /\ serial.ok /\ ~serial.nan
                /\ 1 <= serial.value /\ serial.value <= EXCEL_SERIAL_MAX
                /\ parse_excel_serial_date(serial.value, "1900") # <<>>
        THEN [parsed |-> parse_excel_serial_date(serial.value, "1900"),
              matched |-> "EXCEL_SERIAL"]
        ELSE NoDate

\* returns [parsed, matched]; parse_excel_serial_date is called with its
\* default date_system "1900"
try_parse_date_robust(value0, accepted_formats, excel_serial_enabled) ==
    LET Robust(value) ==
            LET Formats(excel) ==
                    IF excel # <<>>
                    THEN [parsed |-> excel, matched |-> "EXCEL_SERIAL"]
                    ELSE TryFormats(value, accepted_formats, 1)
                Serial(serial) ==
                    Formats(IF excel_serial_enabled /\ serial.ok /\ ~serial.nan
                               /\ 1 <= serial.value /\ serial.value <= EXCEL_SERIAL_MAX
                            THEN parse_excel_serial_date(serial.value, "1900")
                            ELSE <<>>)
            IN  Serial(ParseNumber(value))
    IN  Robust(Strip(value0))

\* date.fromordinal(n): the year, month and day of the date numbered n
FromOrdinal(n) ==
    LET Day(year, month) ==
            [year |-> year, month |-> month, day |-> n - Ordinal(year, month, 1) + 1]
        Month(year) ==
            Day(year, CHOOSE m \in 1..12 :
                        /\ Ordinal(year, m, 1) <= n
                        /\ n <= Ordinal(year, m, DaysInMonth(year, m)))
    IN  Month(CHOOSE y \in (n \div 366)..(n \div 365 + 1) :
                /\ y >= 1
                /\ Ordinal(y, 1, 1) <= n
                /\ n < Ordinal(y + 1, 1, 1))

RECURSIVE ZeroPad(_, _)
ZeroPad(s, width) == IF Len(s) >= width THEN s ELSE ZeroPad(<<"0">> \o s, width)

\* dt.strftime(fmt) of the date numbered dt.  The C library writes %Y, and
\* a year below 1000 comes out with or without leading zeros depending on
\* the platform and the Python version: year_padded tells which.
strftime(dt, fmt, year_padded) ==
    LET Write(date) ==
            Flatten([k \in 1..Len(fmt) |->
                CASE fmt[k] = "%Y" -> IF year_padded THEN ZeroPad(NatToChars(date.year), 4)
                                      ELSE NatToChars(date.year)
                  [] fmt[k] = "%y" -> ZeroPad(NatToChars(date.year % 100), 2)
                  [] fmt[k] = "%m" -> ZeroPad(NatToChars(date.month), 2)
                  [] fmt[k] = "%d" -> ZeroPad(NatToChars(date.day), 2)
                  [] OTHER -> <<fmt[k]>>])
    IN  Write(FromOrdinal(dt))

format_date(dt, human_format, year_padded) ==
    strftime(dt, human_format_to_strftime(human_format), year_padded)

\* Fault variant of coerce_date_to_format: the date is written as
\* YYYY-MM-DD whatever the target format is.
coerce_date_to_format_iso(value, target_format, accepted_input_formats, excel_serial_enabled, year_padded) ==
    LET Format(parsed) == IF parsed # <<>> THEN <<format_date(parsed[1], "YYYY-MM-DD", year_padded)>> ELSE <<>>
    IN  Format(try_parse_date_robust(value, accepted_input_formats, excel_serial_enabled).parsed)

\* the first component of the tuple returned: <<>> for None, else <<str>>
coerce_date_to_format(value, target_format, accepted_input_formats, excel_serial_enabled, year_padded) ==
    LET Format(parsed) == IF parsed # <<>> THEN <<format_date(parsed[1], target_format, year_padded)>> ELSE <<>>
    IN  Format(try_parse_date_robust(value, accepted_input_formats, excel_serial_enabled).parsed)

(***************************************************************************)
(* src/src/validation/results.py and src/src/validation/column_tests.py    *)
(*                                                                         *)
(* A pd.Series is [index, values]: the row labels and the cells, in row    *)
(* order.  A detail string is the record of what it says: its kind, the    *)
(* row label (-1 when it names no row) and the value it quotes.            *)
(***************************************************************************)
Series(index, values) == [index |-> index, values |-> values]

\* df[name]
Column(t, name) == Series(t.index, t.data[name])

Detail(kind, row, value) == [kind |-> kind, row |-> row, value |-> value]

ColumnTestResult(column_name, test_type, severity, passed, total_values, failed_count, failed_indices, failed_values, error_details, warning_message) ==
    [column_name |-> column_name, test_type |-> test_type, severity |-> severity,
     passed |-> passed, total_values |-> total_values,
     failed_count |-> failed_count, failed_indices |-> failed_indices,
     failed_values |-> failed_values, error_details |-> error_details,
     warning_message |-> warning_message]

\* the slice caps written in the test functions
FAILED_CAP == 100
DETAIL_CAP == 10

Min(a, b) == IF a < b THEN a ELSE b

\* s[:n]
Take(s, n) == SubSeq(s, 1, Min(n, Len(s)))

\* the positions at which a sequence of booleans is TRUE, in row order
Positions(flags) == SelectSeq([k \in 1..Len(flags) |-> k], LAMBDA k : flags[k])

\* series.isna()
isna(values) == [k \in 1..Len(values) |-> IsNull(values[k])]

\* series.dropna()
dropna(series) ==
    LET keep == Positions([k \in 1..Len(series.values) |-> ~IsNull(series.values[k])])
    IN  Series([k \in 1..Len(keep) |-> series.index[keep[k]]],
               [k \in 1..Len(keep) |-> series.values[keep[k]]])

test_not_null(series, column_name, severity, params) ==
    LET failed == Positions(isna(series.values))
        failed_indices == [k \in 1..Len(failed) |-> series.index[failed[k]]]
        failed_count == Len(failed_indices)
        shown == Take(failed_indices, DETAIL_CAP)
    IN  ColumnTestResult(column_name, "not_null", severity, failed_count = 0,
            Len(series.values), failed_count,
            Take(failed_indices, FAILED_CAP),
            [k \in 1..Min(failed_count, FAILED_CAP) |-> NullCell],
            [k \in 1..Len(shown) |-> Detail("is null", shown[k], NullCell)],
            NONE)

BOOLEAN_TOKENS == {<<"1">>, <<"0">>, <<"n">>}

\* s with the leading sign int() and float() accept taken off
Unsigned(s) == IF s # <<>> /\ Head(s) \in {"-", "+"} THEN Tail(s) ELSE s

\* whether int(s) returns: blanks around, one sign, then digits only
IsPyInt(s) == IsDigits(Unsigned(Strip(s)))

\* whether float(s) returns, on the characters the cells are written in:
\* blanks around, one sign, then nan, or digits with at most one point in
\* them and a digit on one side of it at least
IsPyFloat(s) ==
    LET body   == Unsigned(Strip(s))
        points == {k \in 1..Len(body) : body[k] = "."}
    IN  \/ Lower(body) = <<"n", "a", "n">>
        \/ /\ Cardinality(points) <= 1
           /\ IsDigits(FilterChars(body, {"."}))

\* data types date and timestamp go through pd.to_datetime and are not
\* among the data types of the tables checked for type conformance
_check_type_conformance(value, data_type) ==
    LET str_value == Strip(PyStr(value))
    IN  CASE data_type = "string"  -> TRUE
          [] data_type = "integer" -> IsPyInt(FilterChars(str_value, {","}))
          [] data_type = "float"   ->
                IsPyFloat(FilterChars(FilterChars(str_value, {","}), {"$"}))
          [] data_type = "boolean" -> Lower(str_value) \in BOOLEAN_TOKENS
          [] OTHER -> TRUE

\* the result a loop over the rows builds: failed holds the positions that
\* failed, detailed those of them for which a detail string was written
LoopResult(series, column_name, test_type, severity, failed, detailed, kind) ==
    LET shown == Take(detailed, DETAIL_CAP)
    IN  ColumnTestResult(column_name, test_type, severity, Len(failed) = 0,
            Len(series.values), Len(failed),
            Take([k \in 1..Len(failed) |-> series.index[failed[k]]], FAILED_CAP),
            Take([k \in 1..Len(failed) |-> series.values[failed[k]]], FAILED_CAP),
            [k \in 1..Len(shown) |->
                Detail(kind, series.index[shown[k]], series.values[shown[k]])],
            NONE)

test_type_conformance(series, column_name, data_type, severity, params) ==
    LET Report(failed) ==
            LoopResult(series, column_name, "type_conformance", severity,
                       failed, failed, "is not a valid " \o data_type)
    IN  Report(Positions([k \in 1..Len(series.values) |->
                    /\ ~IsNull(series.values[k])
                    /\ ~_check_type_conformance(series.values[k], data_type)]))

RECURSIVE CodeSum(_)
CodeSum(s) == IF s = <<>> THEN 0 ELSE CodePoint(Head(s)) + CodeSum(Tail(s))

\* The slot of a value in a set's hash table of 8 slots.  hash(n) = n for a
\* small int.  The hash of a str depends on the hash seed of the process
\* (PYTHONHASHSEED, random by default); seed stands for it, and two strs
\* that differ in one character come in either order as seed varies.
HashSlot(x, seed) ==
    CASE x.t = "int" -> x.n % 8
      [] x.t = "str" -> (seed * CodeSum(x.s)) % 8
      [] OTHER -> 0

\* list(set(values)): the distinct values in the order of their slots
RECURSIVE SetToList(_, _)
SetToList(S, seed) ==
    IF S = {} THEN <<>>
    ELSE LET x == CHOOSE y \in S : \A z \in S : HashSlot(y, seed) <= HashSlot(z, seed)
         IN  <<x>> \o SetToList(S \ {x}, seed)

\* series.duplicated(keep=False): a value is marked when it occurs twice
duplicated(values) ==
    [k \in 1..Len(values) |-> \E m \in 1..Len(values) : m # k /\ values[m] = values[k]]

test_uniqueness(series, column_name, severity, params, seed) ==
    LET Report(failed_indices, failed_values, unique_duplicates) ==
            ColumnTestResult(column_name, "uniqueness", severity,
                Len(failed_indices) = 0,
                Len(series.values), Len(failed_indices),
                Take(failed_indices, FAILED_CAP), Take(failed_values, FAILED_CAP),
                [k \in 1..Len(unique_duplicates) |->
                    Detail("appears multiple times", -1, unique_duplicates[k])],
                NONE)
        Duplicates(failed_indices, failed_values) ==
            Report(failed_indices, failed_values,
                   Take(SetToList(SeqToSet(failed_values), seed), DETAIL_CAP))
        Failed(check_series, failed) ==
            Duplicates([k \in 1..Len(failed) |-> check_series.index[failed[k]]],
                       [k \in 1..Len(failed) |-> check_series.values[failed[k]]])
        Check(check_series) ==
            Failed(check_series, Positions(duplicated(check_series.values)))
    IN  Check(IF params.allow_nulls THEN dropna(series) ELSE series)

\* One step of the loop of test_monotonic: does value fail after prev, and
\* is a detail string written for it.  A comparison with NaN is false.
MonotonicStep(value, prev, direction) ==
    LET Compare(curr_num, prev_num) ==
            IF curr_num.ok /\ prev_num.ok
            THEN [detail |-> TRUE,
                  fails  |-> /\ ~curr_num.nan /\ ~prev_num.nan
                             /\ IF direction = "increasing"
                                THEN curr_num.value < prev_num.value
                                ELSE curr_num.value > prev_num.value]
            ELSE [detail |-> FALSE,
                  fails  |-> IF direction = "increasing"
                             THEN StrLess(PyStr(value), PyStr(prev))
                             ELSE StrLess(PyStr(prev), PyStr(value))]
    IN  Compare(ParseNumber(PyStr(value)), ParseNumber(PyStr(prev)))

test_monotonic(series, column_name, severity, params) ==
    LET direction == IF params.direction = NONE THEN "increasing"
                     ELSE params.direction
        non_null  == dropna(series)
        n         == Len(non_null.values)
        Step(k)   == MonotonicStep(non_null.values[k], non_null.values[k - 1],
                                   direction)
        Report(steps) ==
            LET failed == Positions([k \in 1..n |-> k > 1 /\ steps[k].fails])
            IN  LoopResult(non_null, column_name, "monotonic", severity,
                    failed, SelectSeq(failed, LAMBDA k : steps[k].detail),
                    IF direction = "increasing" THEN "is less than previous"
                    ELSE "is greater than previous")
    IN  IF n < 2
        THEN ColumnTestResult(column_name, "monotonic", severity, TRUE,
                Len(series.values), 0, <<>>, <<>>, <<>>,
                "Not enough non-null values to check monotonicity")
        ELSE [Report([k \in 1..n |-> IF k > 1 THEN Step(k)
                                     ELSE [detail |-> FALSE, fails |-> FALSE]])
                EXCEPT !.total_values = Len(series.values)]

test_date_rule(series, column_name, severity, params) ==
    LET target_format == IF params.target_format = NONE THEN "YYYY-MM-DD"
                         ELSE params.target_format
        mode == IF params.mode = NONE THEN "simple" ELSE params.mode
        accepted_formats ==
            IF mode = "simple" \/ ~params.accepted_input_formats.present
            THEN <<target_format>>
            ELSE params.accepted_input_formats.items
        Report(failed) == LoopResult(series, column_name, "date_rule", severity,
                                     failed, failed, "is not a valid date")
    IN  Report(Positions([k \in 1..Len(series.values) |->
                    /\ ~IsNull(series.values[k])
                    /\ try_parse_date_robust(PyStr(series.values[k]),
                           accepted_formats,
                           params.excel_serial_enabled).parsed = <<>>]))

(***************************************************************************)
(* src/src/presets/patterns.py and test_pattern.  A regular expression is  *)
(* written as re.compile reads it: whether it opens with ^, its atoms in   *)
(* order (a character class with the least and the most repetitions, <<>>  *)
(* for no upper limit), and whether it closes with $.                      *)
(***************************************************************************)
Atom(chars, min, max) == [chars |-> chars, min |-> min, max |-> max]

Regex(caret, atoms, dollar) == [caret |-> caret, atoms |-> atoms, dollar |-> dollar]

AsciiUpper ==
    {"A", "B", "C", "D", "E", "F", "G", "H", "I", "J", "K", "L", "M",
     "N", "O", "P", "Q", "R", "S", "T", "U", "V", "W", "X", "Y", "Z"}

AsciiLower ==
    {"a", "b", "c", "d", "e", "f", "g", "h", "i", "j", "k", "l", "m",
     "n", "o", "p", "q", "r", "s", "t", "u", "v", "w", "x", "y", "z"}

\* what "." matches among the characters cells are written in: all but "\n"
AnyCharacter == AsciiUpper \cup AsciiLower \cup DigitSet \cup {" ", "-"}

\* the positions after the atom when it is matched from position p of s
AtomEnds(atom, s, p) ==
    {p + n : n \in {m \in atom.min..(Len(s) - p + 1) :
                      /\ atom.max # <<>> => m <= atom.max[1]
                      /\ \A k \in p..(p + m - 1) : s[k] \in atom.chars}}

RECURSIVE AtomsEnds(_, _, _)
AtomsEnds(atoms, s, from) ==
    IF atoms = <<>> THEN from
    ELSE AtomsEnds(Tail(atoms), s, UNION {AtomEnds(Head(atoms), s, p) : p \in from})

\* pattern.match(value): a match that starts at the first character; $ is
\* met at the end of the string and before a newline that ends the string
re_match(regex, s) ==
    LET ends == AtomsEnds(regex.atoms, s, {1})
    IN  IF regex.dollar
        THEN \E e \in ends : \/ e = Len(s) + 1
                             \/ e = Len(s) /\ s[Len(s)] = "\n"
        ELSE ends # {}

\* the presets of REGEX_PRESETS whose expressions are a class and a count
REGEX_PRESETS ==
    [zip_us_5 |-> Regex(TRUE, <<Atom(DigitSet, 5, <<5>>)>>, TRUE),
     letters_only |-> Regex(TRUE, <<Atom(AsciiUpper \cup AsciiLower, 1, <<>>)>>, TRUE)]

\* <<>> is None
get_preset_pattern(preset_name) ==
    IF preset_name \in DOMAIN REGEX_PRESETS THEN <<REGEX_PRESETS[preset_name]>> ELSE <<>>

\* the patterns handed over compile, so re.error is not raised
validate_with_custom_pattern(value, pattern_str) == re_match(pattern_str, value)

\* the character class of one allowed_characters entry
CharacterClass(char_type) ==
    CASE char_type = "digits" -> DigitSet
      [] char_type = "letters" -> AsciiLower \cup AsciiUpper
      [] char_type = "alphanumeric" -> AsciiLower \cup AsciiUpper \cup DigitSet
      [] char_type = "uppercase" -> AsciiUpper
      [] char_type = "lowercase" -> AsciiLower
      [] OTHER -> {}

\* re.escape(text): every character stands for itself
Escaped(text) == [k \in 1..Len(text) |-> Atom({text[k]}, 1, <<1>>)]

\* allowed_characters is a list of class names, the lengths are <<>> (None)
\* or <<n>>, starts_with and ends_with are strings (<<>> is None or "")
build_pattern_from_builder(allowed_characters, length_exact, length_min, length_max, starts_with, ends_with) ==
    LET listed == UNION {CharacterClass(allowed_characters[k]) :
                            k \in 1..Len(allowed_characters)}
        char_class == IF listed # {} THEN listed ELSE AnyCharacter
        main_pattern ==
            IF length_exact # <<>> THEN Atom(char_class, length_exact[1], length_exact)
            ELSE IF length_min # <<>> /\ length_max # <<>>
            THEN Atom(char_class, length_min[1], length_max)
            ELSE IF length_min # <<>> THEN Atom(char_class, length_min[1], <<>>)
            ELSE IF length_max # <<>> THEN Atom(char_class, 0, length_max)
            ELSE Atom(char_class, 0, <<>>)
    IN  Regex(TRUE, Escaped(starts_with) \o <<main_pattern>> \o Escaped(ends_with), TRUE)

\* params["builder"]: length is the dict under "length"
BuilderParams(allowed_characters, exact, min, max, starts_with, ends_with) ==
    [allowed_characters |-> allowed_characters,
     length |-> [exact |-> exact, min |-> min, max |-> max],
     starts_with |-> starts_with, ends_with |-> ends_with]

\* params.get("builder", {}) on a dict without the key
NoBuilderParams == BuilderParams(<<>>, <<>>, <<>>, <<>>, <<>>, <<>>)

\* test_pattern, "Build the pattern based on tier": tier is NONE when the
\* key is absent; builder is <<>> when absent; pattern is <<>> (absent, None
\* or "") or <<Regex>>.  The result is <<>> for a falsy pattern.
PatternOfTier(params) ==
    LET tier == IF params.tier = NONE THEN "preset" ELSE params.tier
        builder_params == IF params.builder = <<>> THEN NoBuilderParams
                          ELSE params.builder[1]
    IN  CASE tier = "preset" ->
                IF Falsy(params.preset_name) THEN <<>>
                ELSE get_preset_pattern(params.preset_name)
          [] tier = "builder" ->
                <<build_pattern_from_builder(builder_params.allowed_characters,
                    builder_params.length.exact, builder_params.length.min,
                    builder_params.length.max, builder_params.starts_with,
                    builder_params.ends_with)>>
          [] OTHER -> params.pattern

test_pattern(series, column_name, severity, params) ==
    LET Report(failed) == LoopResult(series, column_name, "pattern", severity,
                                     failed, failed, "does not match pattern")
        Run(pattern) ==
            IF pattern = <<>>
            THEN ColumnTestResult(column_name, "pattern", severity, FALSE,
                    Len(series.values), 0, <<>>, <<>>, <<>>, "No pattern specified")
            ELSE Report(Positions([k \in 1..Len(series.values) |->
                            /\ ~IsNull(series.values[k])
                            /\ ~validate_with_custom_pattern(
                                    PyStr(series.values[k]), pattern[1])]))
    IN  Run(PatternOfTier(params))

\* pd.to_datetime on the strings the cells and the bounds are written in:
\* ISO dates, and text that is no date at all (<<>>: the call raises)
to_datetime(value) == parse_date_with_format(value, "YYYY-MM-DD")

\* min_date and max_date are the strings under the keys of the same name,
\* <<>> when the key is absent, None or ""
test_date_window(series, column_name, severity, params) ==
    LET \* dates[k] is pd.to_datetime(str(value)) of the k-th cell
        Window(min_date, max_date, dates) ==
            LET Before(k) ==
                    dates[k] # <<>> /\ min_date # <<>> /\ dates[k][1] < min_date[1]
                After(k) ==
                    dates[k] # <<>> /\ max_date # <<>> /\ dates[k][1] > max_date[1]
                Report(failed) ==
                    ColumnTestResult(column_name, "date_window", severity,
                        Len(failed) = 0, Len(series.values), Len(failed),
                        Take([k \in 1..Len(failed) |-> series.index[failed[k]]], FAILED_CAP),
                        Take([k \in 1..Len(failed) |-> series.values[failed[k]]], FAILED_CAP),
                        [k \in 1..Min(Len(failed), DETAIL_CAP) |->
                            Detail(IF Before(failed[k])
                                   THEN "is before minimum date"
                                   ELSE "is after maximum date",
                                   series.index[failed[k]], series.values[failed[k]])],
                        NONE)
            IN  Report(Positions([k \in 1..Len(series.values) |->
                            /\ ~IsNull(series.values[k])
                            /\ (Before(k) \/ After(k))]))
    IN  Window(IF params.min_date = <<>> THEN <<>> ELSE to_datetime(params.min_date),
               IF params.max_date = <<>> THEN <<>> ELSE to_datetime(params.max_date),
               [k \in 1..Len(series.values) |->
                    IF IsNull(series.values[k]) THEN <<>>
                    ELSE to_datetime(PyStr(series.values[k]))])

\* the entries of COLUMN_TEST_FUNCTIONS that the model has
COLUMN_TEST_FUNCTIONS ==
    {"not_null", "type_conformance", "uniqueness", "monotonic", "pattern",
     "date_rule", "date_window"}

run_column_test(test_type, series, column_name, data_type, severity, params, seed) ==
    CASE test_type \notin COLUMN_TEST_FUNCTIONS ->
            ColumnTestResult(column_name, test_type, severity, FALSE,
                Len(series.values), 0, <<>>, <<>>, <<>>, "Unknown test type")
      [] test_type = "not_null" ->
            test_not_null(series, column_name, severity, params)
      [] test_type = "type_conformance" ->
            test_type_conformance(series, column_name, data_type, severity, params)
      [] test_type = "uniqueness" ->
            test_uniqueness(series, column_name, severity, params, seed)
      [] test_type = "monotonic" ->
            test_monotonic(series, column_name, severity, params)
      [] test_type = "pattern" ->
            test_pattern(series, column_name, severity, params)
      [] test_type = "date_rule" ->
            test_date_rule(series, column_name, severity, params)
      [] test_type = "date_window" ->
            test_date_window(series, column_name, severity, params)


(***************************************************************************)
(* Outcomes of a call that can raise: [raised, exc, value], value being    *)
(* <<>> when the call raised and <<v>> when it returned v.                 *)
(***************************************************************************)
Returned(v) == [raised |-> FALSE, exc |-> "", value |-> <<v>>]

Raised(exc) == [raised |-> TRUE, exc |-> exc, value |-> <<>>]

(***************************************************************************)
(* src/src/validation/dataset_tests.py                                     *)
(*                                                                         *)
(* A DatasetTestResult keeps the fields the engine and the summary read:   *)
(* message is the kind of message; of details the keys rows_checked and    *)
(* rows_failed are kept, <<>> for a key the dict does not have.            *)
(***************************************************************************)
DatasetTestResult(test_type, severity, passed, message, affected_rows) ==
    [test_type |-> test_type, severity |-> severity, passed |-> passed,
     message |-> message, affected_rows |-> affected_rows,
     details |-> [rows_checked |-> <<>>, rows_failed |-> <<>>]]

\* the slice affected_rows is cut to
AFFECTED_CAP == 1000

NumRows(t) == Len(t.index)

\* the cells of row k in the columns cols
RowKey(t, k, cols) == [c \in 1..Len(cols) |-> t.data[cols[c]][k]]

\* df.duplicated(subset=cols, keep=False)
df_duplicated(t, cols) ==
    [k \in 1..NumRows(t) |->
        \E m \in 1..NumRows(t) : m # k /\ RowKey(t, m, cols) = RowKey(t, k, cols)]

\* df.index[mask].tolist()
IndexWhere(t, mask) ==
    LET at == Positions(mask) IN [k \in 1..Len(at) |-> t.index[at[k]]]

\* subset names a column the table does not have: pandas raises KeyError
test_duplicate_rows(t, severity, params) ==
    LET subset == IF params.subset = <<>> THEN t.columns ELSE params.subset[1]
        duplicate_indices == IndexWhere(t, df_duplicated(t, subset))
    IN  IF \E c \in 1..Len(subset) : ~HasColumn(t, subset[c])
        THEN Raised("KeyError")
        ELSE Returned(DatasetTestResult("duplicate_rows", severity,
                Len(duplicate_indices) = 0,
                IF Len(duplicate_indices) > 0 THEN "Found duplicate rows"
                ELSE "No duplicate rows found",
                duplicate_indices))

test_primary_key_completeness(t, severity, params, seed) ==
    LET key_columns == params.key_columns
        present == SelectSeq(key_columns, LAMBDA c : HasColumn(t, c))
        NullRows(c) == IndexWhere(t, isna(t.data[c]))
        affected == Flatten([k \in 1..Len(present) |-> NullRows(present[k])])
        total_nulls == Len(affected)
        unique == SetToList({IntCell(affected[k]) : k \in 1..Len(affected)}, seed)
    IN  IF key_columns = <<>>
        THEN Returned(DatasetTestResult("primary_key_completeness", severity, FALSE,
                "No key columns specified", <<>>))
        ELSE Returned(DatasetTestResult("primary_key_completeness", severity,
                total_nulls = 0,
                IF total_nulls > 0 THEN "Primary key has null values"
                ELSE "Primary key is complete",
                [k \in 1..Len(unique) |-> unique[k].n]))

test_primary_key_uniqueness(t, severity, params) ==
    LET key_columns == params.key_columns
        missing_cols == SelectSeq(key_columns, LAMBDA c : ~HasColumn(t, c))
        duplicate_indices == IndexWhere(t, df_duplicated(t, key_columns))
    IN  IF key_columns = <<>>
        THEN Returned(DatasetTestResult("primary_key_uniqueness", severity, FALSE,
                "No key columns specified", <<>>))
        ELSE IF missing_cols # <<>>
        THEN Returned(DatasetTestResult("primary_key_uniqueness", severity, FALSE,
                "Key columns not found", <<>>))
        ELSE Returned(DatasetTestResult("primary_key_uniqueness", severity,
                Len(duplicate_indices) = 0,
                IF Len(duplicate_indices) > 0 THEN "Primary key has duplicate rows"
                ELSE "Primary key is unique",
                duplicate_indices))

test_composite_key_uniqueness(t, severity, params) ==
    LET result == test_primary_key_uniqueness(t, severity, params).value[1]
    IN  Returned([result EXCEPT !.test_type = "composite_key_uniqueness"])

\* Fault variant of FilterRows: the mask is not applied.
FilterRows_unmasked(t, mask) == t

\* df[mask]: the rows at which mask holds
FilterRows(t, mask) ==
    LET keep == Positions(mask)
    IN  Table(t.columns, [k \in 1..Len(keep) |-> t.index[keep[k]]],
              [c \in DOMAIN t.data |-> [k \in 1..Len(keep) |-> t.data[c][keep[k]]]])

\* s.find(op) + 1: where the characters op first occur in s, 0 for nowhere
Find(s, op) ==
    LET at == {k \in 1..(Len(s) - Len(op) + 1) : SubSeq(s, k, k + Len(op) - 1) = op}
    IN  IF at = {} THEN 0 ELSE CHOOSE k \in at : \A m \in at : k <= m

\* the column names of the tables, as the Python strings an expression
\* holds
Spelling == [a |-> <<"a">>, b |-> <<"b">>, id |-> <<"i", "d">>]

\* the columns of t whose name is the string text
ColumnsNamed(t, text) ==
    {c \in SeqToSet(t.columns) \cap DOMAIN Spelling : Spelling[c] = text}

\* The literals of the model's expressions are integers, booleans and
\* strings: none has a "." and none is a date pd.to_datetime accepts.  True
\* and False compare as 1 and 0.
_parse_literal(value) ==
    LET number == ParseNumber(value)
    IN  IF number.ok /\ ~number.nan THEN IntCell(number.value)
        ELSE IF Lower(value) = <<"t", "r", "u", "e">> THEN IntCell(1)
        ELSE IF Lower(value) = <<"f", "a", "l", "s", "e">> THEN IntCell(0)
        ELSE IF value # <<>> /\ Head(value) = value[Len(value)] /\ Head(value) \in {"'", "\""}
        THEN StrCell(SubSeq(value, 2, Len(value) - 1))
        ELSE StrCell(value)

\* the operators in the order _evaluate_cross_field_expression looks for them
CROSS_FIELD_OPERATORS ==
    <<<<"<", "=">>, <<">", "=">>, <<"=", "=">>, <<"!", "=">>, <<"<">>, <<">">>>>

\* x op y, given whether x < y and whether x = y
Ordered(op, less, equal) ==
    CASE op = <<"<">> -> less
      [] op = <<"<", "=">> -> less \/ equal
      [] op = <<">">> -> ~less /\ ~equal
      [] op = <<">", "=">> -> ~less
      [] op = <<"=", "=">> -> equal
      [] op = <<"!", "=">> -> ~equal

\* One element of left_series op right_series: "True", "False" or
\* "TypeError".  A series with a str in it has dtype object.  With an
\* object left side pandas compares element by element and skips nulls;
\* otherwise numpy compares, a null being the float NaN.  An ordering
\* between a str and a number raises TypeError.
CompareCells(op, x, y, left_is_object) ==
    LET Number(c) == c.t # "str"
        Bool(b) == IF b THEN "True" ELSE "False"
    IN  IF (IsNull(x) \/ IsNull(y)) /\ (left_is_object \/ (Number(x) /\ Number(y)))
        THEN Bool(op = <<"!", "=">>)
        ELSE IF Number(x) # Number(y)
        THEN (IF op = <<"=", "=">> THEN "False"
              ELSE IF op = <<"!", "=">> THEN "True" ELSE "TypeError")
        ELSE IF Number(x) THEN Bool(Ordered(op, x.n < y.n, x.n = y.n))
        ELSE Bool(Ordered(op, StrLess(x.s, y.s), x.s = y.s))

_evaluate_cross_field_expression(t, expression) ==
    LET found == SelectSeq(CROSS_FIELD_OPERATORS, LAMBDA op : Find(expression, op) > 0)
        Operand(text) ==
            IF ColumnsNamed(t, text) # {}
            THEN t.data[CHOOSE c \in ColumnsNamed(t, text) : TRUE]
            ELSE [k \in 1..NumRows(t) |-> _parse_literal(text)]
        Mask(cells) ==
            IF \E k \in 1..Len(cells) : cells[k] = "TypeError"
            THEN Raised("TypeError")
            ELSE Returned([k \in 1..Len(cells) |-> cells[k] = "True"])
        Apply(op, left_series, right_series) ==
            Mask([k \in 1..NumRows(t) |->
                    CompareCells(op, left_series[k], right_series[k],
                        \E m \in 1..Len(left_series) : left_series[m].t = "str")])
        Sides(op, operands) == Apply(op, operands[1], operands[2])
        Split(op, at) ==
            Sides(op, [side \in 1..2 |->
                        Operand(Strip(IF side = 1 THEN SubSeq(expression, 1, at - 1)
                                      ELSE SubSeq(expression, at + Len(op),
                                                  Len(expression))))])
    IN  IF found = <<>> THEN Raised("ValueError")
        ELSE Split(found[1], Find(expression, found[1]))

\* details of a cross-field result: the rows_checked and rows_failed keys
CrossFieldDetails(result, rows_checked, rows_failed) ==
    [result EXCEPT !.details = [rows_checked |-> rows_checked, rows_failed |-> rows_failed]]

test_cross_field_rule(t, severity, params) ==
    LET expression == params.expression
        all_not_null == params.all_not_null
        condition_mask ==
            [k \in 1..NumRows(t) |->
                \A g \in 1..Len(all_not_null) :
                    HasColumn(t, all_not_null[g]) => ~IsNull(t.data[all_not_null[g]][k])]
        Report(rows_to_check, result_mask) ==
            IF result_mask.raised
            THEN Returned(DatasetTestResult("cross_field_rule", severity, FALSE,
                    "Error evaluating expression", <<>>))
            ELSE LET Failed(failed_indices) ==
                        Returned(CrossFieldDetails(
                            DatasetTestResult("cross_field_rule", severity,
                                Len(failed_indices) = 0,
                                IF Len(failed_indices) > 0 THEN "rows failed the assertion"
                                ELSE "All rows passed",
                                Take(failed_indices, AFFECTED_CAP)),
                            <<NumRows(rows_to_check)>>, <<Len(failed_indices)>>))
                 IN  Failed(IndexWhere(rows_to_check,
                        [k \in 1..NumRows(rows_to_check) |-> ~result_mask.value[1][k]]))
        Check(rows_to_check) ==
            IF NumRows(rows_to_check) = 0
            THEN Returned(CrossFieldDetails(
                    DatasetTestResult("cross_field_rule", severity, TRUE,
                        "No rows to check (all filtered by conditions)", <<>>),
                    <<0>>, <<>>))
            ELSE Report(rows_to_check,
                        _evaluate_cross_field_expression(rows_to_check, expression))
    IN  IF expression = <<>>
        THEN Returned(DatasetTestResult("cross_field_rule", severity, FALSE,
                "No expression specified", <<>>))
        ELSE Check(IF all_not_null # <<>> THEN FilterRows(t, condition_mask) ELSE t)

\* pd.to_numeric(series, errors="coerce"): <<>> for NaN, <<n>> for a number
to_numeric(values) ==
    [k \in 1..Len(values) |->
        LET Coerce(number) ==
                IF number.ok /\ ~number.nan THEN <<number.value>> ELSE <<>>
        IN  IF values[k].t = "int" THEN <<values[k].n>>
            ELSE IF values[k].t = "str" THEN Coerce(ParseNumber(values[k].s))
            ELSE <<>>]

\* the numbers of a numeric series, NaN skipped
Numbers(values) ==
    LET at == Positions([k \in 1..Len(values) |-> values[k] # <<>>])
    IN  [k \in 1..Len(at) |-> values[at[k]][1]]

\* the k-th smallest of the numbers xs, k in 1..Len(xs)
KthSmallest(xs, k) ==
    CHOOSE x \in SeqToSet(xs) :
        /\ Cardinality({j \in 1..Len(xs) : xs[j] < x}) < k
        /\ k <= Cardinality({j \in 1..Len(xs) : xs[j] <= x})

\* 4 * series.quantile(quarters / 4) on at least one number, by linear
\* interpolation between the two nearest ranks
quantile(xs, quarters) ==
    LET whole == (quarters * (Len(xs) - 1)) \div 4
        part  == (quarters * (Len(xs) - 1)) % 4
        low   == KthSmallest(xs, whole + 1)
    IN  IF part = 0 THEN 4 * low
        ELSE 4 * low + part * (KthSmallest(xs, whole + 2) - low)

\* 1.5 and 3.0 as fractions
OUTLIER_IQR_MULTIPLIER_DEFAULT == [num |-> 3, den |-> 2]

OUTLIER_ZSCORE_THRESHOLD_DEFAULT == [num |-> 3, den |-> 1]

\* The bounds are compared times 4 * multiplier.den, in whole numbers.  With
\* no number in the column q1, q3 and the bounds are NaN and no value is
\* beyond them.
test_outliers_iqr(t, severity, params) ==
    LET column == params.column
        multiplier == IF params.multiplier = <<>> THEN OUTLIER_IQR_MULTIPLIER_DEFAULT
                      ELSE params.multiplier[1]
        Report(outlier_indices) ==
            Returned(DatasetTestResult("outliers_iqr", "warning", TRUE,
                IF Len(outlier_indices) > 0 THEN "Found potential outliers"
                ELSE "No outliers detected using IQR method",
                Take(outlier_indices, AFFECTED_CAP)))
        Bounds(values, q1, q3) ==
            Report(IndexWhere(t, [k \in 1..Len(values) |->
                /\ values[k] # <<>>
                /\ \/ 4 * multiplier.den * values[k][1]
                        < multiplier.den * q1 - multiplier.num * (q3 - q1)
                   \/ 4 * multiplier.den * values[k][1]
                        > multiplier.den * q3 + multiplier.num * (q3 - q1)]))
        Quantiles(values, xs) ==
            IF xs = <<>> THEN Report(<<>>)
            ELSE Bounds(values, quantile(xs, 1), quantile(xs, 3))
        Numeric(values) == Quantiles(values, Numbers(values))
    IN  IF Falsy(column) \/ ~HasColumn(t, column)
        THEN Returned(DatasetTestResult("outliers_iqr", severity, TRUE,
                "No valid column specified for outlier detection", <<>>))
        ELSE Numeric(to_numeric(t.data[column]))

\* With n numbers of sum s, |x - mean| / std > threshold is
\* (n*x - s)^2 * (n - 1) * den^2 > num^2 * sum((n*xi - s)^2); std is NaN
\* with fewer than two numbers and 0 when all are equal.
test_outliers_zscore(t, severity, params) ==
    LET column == params.column
        threshold == IF params.threshold = <<>> THEN OUTLIER_ZSCORE_THRESHOLD_DEFAULT
                     ELSE params.threshold[1]
        Report(outlier_indices) ==
            Returned(DatasetTestResult("outliers_zscore", "warning", TRUE,
                IF Len(outlier_indices) > 0 THEN "Found potential outliers"
                ELSE "No outliers detected using Z-score method",
                Take(outlier_indices, AFFECTED_CAP)))
        Scores(values, n, s, squares) ==
            IF n < 2 \/ squares = 0
            THEN Returned(DatasetTestResult("outliers_zscore", severity, TRUE,
                    "Column has zero variance", <<>>))
            ELSE Report(IndexWhere(t, [k \in 1..Len(values) |->
                    /\ values[k] # <<>>
                    /\ (n * values[k][1] - s) * (n * values[k][1] - s) * (n - 1)
                            * threshold.den * threshold.den
                       > threshold.num * threshold.num * squares]))
        Moments(values, xs, s) ==
            Scores(values, Len(xs), s,
                   Sum([k \in 1..Len(xs) |-> (Len(xs) * xs[k] - s) * (Len(xs) * xs[k] - s)]))
        Numeric(values, xs) == Moments(values, xs, Sum(xs))
        Coerced(values) == Numeric(values, Numbers(values))
    IN  IF Falsy(column) \/ ~HasColumn(t, column)
        THEN Returned(DatasetTestResult("outliers_zscore", severity, TRUE,
                "No valid column specified for outlier detection", <<>>))
        ELSE Coerced(to_numeric(t.data[column]))

DATASET_TEST_FUNCTIONS ==
    {"duplicate_rows", "primary_key_completeness", "primary_key_uniqueness",
     "composite_key_uniqueness", "cross_field_rule", "outliers_iqr",
     "outliers_zscore"}

run_dataset_test(test_type, t, severity, params, seed) ==
    CASE test_type \notin DATASET_TEST_FUNCTIONS ->
            Returned(DatasetTestResult(test_type, severity, FALSE,
                                       "Unknown test type", <<>>))
      [] test_type = "duplicate_rows" -> test_duplicate_rows(t, severity, params)
      [] test_type = "primary_key_completeness" ->
            test_primary_key_completeness(t, severity, params, seed)
      [] test_type = "primary_key_uniqueness" ->
            test_primary_key_uniqueness(t, severity, params)
      [] test_type = "composite_key_uniqueness" ->
            test_composite_key_uniqueness(t, severity, params)
      [] test_type = "cross_field_rule" -> test_cross_field_rule(t, severity, params)
      [] test_type = "outliers_iqr" -> test_outliers_iqr(t, severity, params)
      [] test_type = "outliers_zscore" -> test_outliers_zscore(t, severity, params)

(***************************************************************************)
(* src/src/validation/foreign_key.py                                       *)
(***************************************************************************)
ForeignKeyCheckResult(name, dataset_column, fk_column, passed, total_values, missing_count, missing_values, missing_row_indices) ==
    [name |-> name, dataset_column |-> dataset_column, fk_column |-> fk_column,
     passed |-> passed, total_values |-> total_values,
     missing_count |-> missing_count, missing_values |-> missing_values,
     missing_row_indices |-> missing_row_indices]

\* the function create_normalization_function returns, applied to a value
normalize(value, trim_whitespace, case, null_tokens) ==
    LET str_value == IF trim_whitespace THEN Strip(PyStr(value)) ELSE PyStr(value)
    IN  IF IsNull(value) THEN value
        ELSE IF str_value \in SeqToSet(null_tokens) THEN NullCell
        ELSE CASE case = "lower" -> StrCell(Lower(str_value))
               [] case = "upper" -> StrCell(Upper(str_value))
               [] case = "title" -> StrCell(Title(str_value))
               [] OTHER -> StrCell(str_value)

\* Fault variant of IsMissing: a null is skipped whatever allow_nulls is.
IsMissing_nulls_skipped(value, fk_set, allow_nulls) ==
    ~IsNull(value) /\ value \notin fk_set

\* the loop body of validate_foreign_key: whether the row of value is
\* appended to missing_row_indices
IsMissing(value, fk_set, allow_nulls) ==
    IF IsNull(value) THEN ~allow_nulls ELSE value \notin fk_set

\* norm is <<>> (no normalization function) or <<Normalization>>
validate_foreign_key(dataset_series, fk_series, name, dataset_column, fk_column, allow_nulls, norm, seed) ==
    LET Norm(x) == IF norm = <<>> \/ IsNull(x) THEN x
                   ELSE normalize(x, norm[1].trim_whitespace, norm[1].case,
                                  norm[1].null_tokens)
        Result(dataset_values, missing) ==
            LET missing_row_indices ==
                    [k \in 1..Len(missing) |-> dataset_series.index[missing[k]]]
                missing_values == {dataset_values[missing[k]] : k \in 1..Len(missing)}
            IN  ForeignKeyCheckResult(name, dataset_column, fk_column,
                    Len(missing) = 0, Len(dataset_series.values), Len(missing),
                    Take(SetToList(missing_values, seed), 100),
                    Take(missing_row_indices, 1000))
        Check(dataset_values, fk_set) ==
            Result(dataset_values,
                   Positions([k \in 1..Len(dataset_values) |->
                      IsMissing(dataset_values[k], fk_set, allow_nulls)]))
    IN  Check([k \in 1..Len(dataset_series.values) |-> Norm(dataset_series.values[k])],
              {Norm(fk_series.values[k]) : k \in 1..Len(fk_series.values)}
              \ {NullCell})


(***************************************************************************)
(* src/src/validation/engine.py                                            *)
(***************************************************************************)
KeptCharacter(c) == IsPrintable(c) \/ c = "\t"

_remove_non_printable(value) ==
    IF value.t # "str" THEN value
    ELSE StrCell(SelectSeq(value.s, KeptCharacter))

\* the four steps _apply_normalizations applies to the cells of a column
NormalizeCell(x, norm) ==
    LET trimmed == IF norm.trim_whitespace /\ x.t = "str"
                   THEN StrCell(Strip(x.s)) ELSE x
        printable == IF norm.remove_non_printable /\ ~IsNull(trimmed)
                     THEN _remove_non_printable(trimmed) ELSE trimmed
        tokened == IF norm.null_tokens # <<>>
                      /\ PyStr(printable) \in SeqToSet(norm.null_tokens)
                   THEN NullCell ELSE printable
    IN  IF IsNull(tokened) \/ Falsy(norm.case) \/ norm.case = "none" THEN tokened
        ELSE CASE norm.case = "lower" -> StrCell(Lower(PyStr(tokened)))
               [] norm.case = "upper" -> StrCell(Upper(PyStr(tokened)))
               [] norm.case = "title" -> StrCell(Title(PyStr(tokened)))
               [] OTHER -> tokened

\* the body of the loop of _apply_normalizations for one column config
NormalizeColumn(t, col_config) ==
    IF ~HasColumn(t, col_config.name) \/ col_config.normalization = <<>> THEN t
    ELSE SetColumn(t, col_config.name,
            [k \in 1..NumRows(t) |->
                NormalizeCell(t.data[col_config.name][k], col_config.normalization[1])])

RECURSIVE NormalizeColumns(_, _, _)
NormalizeColumns(t, columns, k) ==
    IF k > Len(columns) THEN t
    ELSE NormalizeColumns(NormalizeColumn(t, columns[k]), columns, k + 1)

\* returns [heap, ref]: the heap after the call and the DataFrame returned
_apply_normalizations(heap, df, contract) ==
    LET c == df_copy(heap, df)
    IN  [heap |-> [c.heap EXCEPT ![c.ref] =
                      NormalizeColumns(c.heap[c.ref], contract.columns, 1)],
         ref  |-> c.ref]

CellValidationResult(row_index, column_name, original_value, test_type, error_message, severity) ==
    [row_index |-> row_index, column_name |-> column_name,
     original_value |-> original_value, is_valid |-> FALSE,
     test_type |-> test_type, error_message |-> error_message,
     severity |-> severity]

NoDetail == Detail("", -1, NullCell)

\* sum(1 for ... if ...): how many of a sequence of booleans are TRUE
CountTrue(flags) == Len(Positions(flags))

\* returns [col_result, cell_errors]
_validate_column(series, col_config, seed) ==
    LET tests == col_config.tests
        \* the aggregation that follows the loop over the tests
        Aggregate(test_results) ==
            LET ErrorsOf(j) ==
                    LET result == test_results[j] IN
                    IF result.passed THEN <<>>
                    ELSE [i \in 1..Len(result.failed_indices) |->
                            CellValidationResult(result.failed_indices[i],
                                col_config.name,
                                IF i <= Len(result.failed_values)
                                THEN result.failed_values[i] ELSE NullCell,
                                tests[j].type,
                                IF i <= Len(result.error_details)
                                THEN result.error_details[i] ELSE NoDetail,
                                tests[j].severity)]
                Tally(Test(_)) ==
                    CountTrue([j \in 1..Len(test_results) |-> Test(test_results[j])])
                passed_tests  == Tally(LAMBDA r : r.passed)
                failed_tests  == Tally(LAMBDA r : ~r.passed)
                warning_count == Tally(LAMBDA r : ~r.passed /\ r.severity = "warning")
                error_count   == Tally(LAMBDA r : ~r.passed /\ r.severity = "error")
            IN  [col_result |->
                    [column_name |-> col_config.name,
                     data_type |-> col_config.data_type,
                     is_valid |-> error_count = 0, total_tests |-> Len(test_results),
                     passed_tests |-> passed_tests, failed_tests |-> failed_tests,
                     warning_count |-> warning_count, test_results |-> test_results,
                     overall_status |-> IF error_count > 0 THEN "FAIL"
                                        ELSE IF warning_count > 0 THEN "WARNING"
                                        ELSE "PASS"],
                 cell_errors |-> Flatten([j \in 1..Len(tests) |-> ErrorsOf(j)])]
    IN  Aggregate([j \in 1..Len(tests) |->
            run_column_test(tests[j].type, series, col_config.name,
                            col_config.data_type, tests[j].severity,
                            tests[j].params, seed)])

\* <<>> for None, else <<col>>: the first column config of that name
_get_column_config(contract, column_name) ==
    LET at == {k \in 1..Len(contract.columns) : contract.columns[k].name = column_name}
    IN  IF at = {} THEN <<>>
        ELSE <<contract.columns[CHOOSE k \in at : \A m \in at : k <= m]>>

\* a line of blocking_errors: what it reports and about what
BlockingError(kind, name, test_type) ==
    [kind |-> kind, name |-> name, test_type |-> test_type]

(***************************************************************************)
(* src/src/validation/results.py: calculate_summary.  column_results is    *)
(* the list of the dict's values; error_rate_percent is left out.          *)
(***************************************************************************)
calculate_summary(column_results, dataset_test_results, fk_check_results, cell_errors, row_count, column_count) ==
    LET col(f(_)) == Sum([k \in 1..Len(column_results) |-> f(column_results[k])])
        Tally(seq, Test(_)) == CountTrue([k \in 1..Len(seq) |-> Test(seq[k])])
        dt_passed == Tally(dataset_test_results, LAMBDA r : r.passed)
        dt_failed == Tally(dataset_test_results, LAMBDA r : ~r.passed)
        dt_warn   == Tally(dataset_test_results,
                           LAMBDA r : ~r.passed /\ r.severity = "warning")
        fk_passed == Tally(fk_check_results, LAMBDA r : r.passed)
        fk_failed == Tally(fk_check_results, LAMBDA r : ~r.passed)
        cell_err  == Tally(cell_errors, LAMBDA e : e.severity = "error")
        error_row_indices ==
            {cell_errors[k].row_index :
                k \in {m \in 1..Len(cell_errors) : cell_errors[m].severity = "error"}}
        errors == (dt_failed - dt_warn) + fk_failed + cell_err
    IN  [total_rows |-> row_count, total_columns |-> column_count,
         total_tests_run |-> col(LAMBDA r : r.total_tests)
                             + Len(dataset_test_results) + Len(fk_check_results),
         total_tests_passed |-> col(LAMBDA r : r.passed_tests) + dt_passed + fk_passed,
         total_tests_failed |-> col(LAMBDA r : r.failed_tests) + dt_failed + fk_failed,
         total_warnings |-> col(LAMBDA r : r.warning_count) + dt_warn
                            + (Len(cell_errors) - cell_err),
         total_errors |-> errors,
         rows_with_errors |-> Cardinality(error_row_indices),
         clean_rows |-> row_count - Cardinality(error_row_indices),
         has_blocking_errors |-> errors > 0]


\* The column loop of run_validation on the processed table t: for the
\* column config k, the entry of column_results (<<>> when the column is
\* missing), the cell errors and the blocking errors it adds.
ColumnStep(t, contract, k, seed) ==
    LET col_config == contract.columns[k]
        col_name   == col_config.name
        Validated(v) ==
            LET blocking ==
                    SelectSeq(v.col_result.test_results,
                      LAMBDA r : /\ ~r.passed /\ r.severity = "error"
                                 /\ col_config.failure_handling[1].action = "strict_fail")
            IN  [col_result |-> <<v.col_result>>, cell_errors |-> v.cell_errors,
                 blocking_errors |->
                    [j \in 1..Len(blocking) |->
                        BlockingError("column strict_fail", col_name,
                                      blocking[j].test_type)]]
    IN  IF ~HasColumn(t, col_name)
        THEN [col_result |-> <<>>, cell_errors |-> <<>>,
              blocking_errors |-> <<BlockingError("column not found", col_name, "")>>]
        ELSE Validated(_validate_column(Column(t, col_name), col_config, seed))

\* the values of the dict column_results: for every name the result stored
\* last, in the order in which the names were first stored
DictValues(steps) ==
    LET stored == Positions([k \in 1..Len(steps) |-> steps[k].col_result # <<>>])
        Name(k) == steps[k].col_result[1].column_name
        first == SelectSeq(stored,
                    LAMBDA k : \A m \in SeqToSet(stored) : Name(m) = Name(k) => k <= m)
        Last(k) == CHOOSE m \in SeqToSet(stored) :
                      /\ Name(m) = Name(k)
                      /\ \A n \in SeqToSet(stored) : Name(n) = Name(k) => n <= m
    IN  [i \in 1..Len(first) |-> steps[Last(first[i])].col_result[1]]

\* the dataset-test loop, for test k: the outcome of run_dataset_test and
\* the blocking errors the test adds when it returned
DatasetStep(t, contract, k, seed) ==
    LET dt_test == contract.dataset_tests[k]
        Ran(outcome) ==
            [outcome |-> outcome,
             blocking_errors |->
                IF ~outcome.raised /\ ~outcome.value[1].passed
                   /\ dt_test.severity = "error"
                   /\ dt_test.on_fail # <<>> /\ dt_test.on_fail[1].action = "strict_fail"
                THEN <<BlockingError("dataset test strict_fail", "", dt_test.type)>>
                ELSE <<>>]
    IN  Ran(run_dataset_test(dt_test.type, t, dt_test.severity, dt_test.params, seed))

\* the foreign-key loop, for check k; fk is <<>> (None) or <<table>>
ForeignKeyStep(t, fk, contract, k, seed) ==
    LET fk_check == contract.foreign_key_checks[k]
        col_config == _get_column_config(contract, fk_check.dataset_column)
        norm == IF col_config # <<>> THEN col_config[1].normalization ELSE <<>>
        Checked(fk_result) ==
            [fk_result |-> <<fk_result>>,
             blocking_errors |->
                IF ~fk_result.passed /\ fk_check.on_fail[1].action = "strict_fail"
                THEN <<BlockingError("FK strict_fail", fk_check.name, "")>>
                ELSE <<>>]
    IN  IF fk = <<>>
        THEN [fk_result |-> <<ForeignKeyCheckResult(fk_check.name,
                                fk_check.dataset_column, fk_check.fk_column,
                                FALSE, 0, 0, <<>>, <<>>)>>,
              blocking_errors |-> <<BlockingError("no FK file", fk_check.name, "")>>]
        ELSE IF ~HasColumn(t, fk_check.dataset_column)
        THEN [fk_result |-> <<>>,
              blocking_errors |->
                <<BlockingError("FK dataset column not found", fk_check.name, "")>>]
        ELSE IF ~HasColumn(fk[1], fk_check.fk_column)
        THEN [fk_result |-> <<>>,
              blocking_errors |->
                <<BlockingError("FK column not found", fk_check.name, "")>>]
        ELSE Checked(validate_foreign_key(Column(t, fk_check.dataset_column),
                        Column(fk[1], fk_check.fk_column), fk_check.name,
                        fk_check.dataset_column, fk_check.fk_column,
                        fk_check.allow_nulls, norm, seed))

\* run_validation(df, contract, fk_dataframe), df and fk_dataframe being
\* references into the heap (fk_dataframe 0 for None).  Returns the heap
\* after the call and the outcome: the ValidationResult, or the exception
\* a dataset test raised (nothing in run_validation catches it).
run_validation(heap, df, contract, fk_dataframe, seed) ==
    LET \* the ValidationResult built after the three loops
        Result(column_results, dataset_test_results, fk_check_results, cell_errors, blocking_errors) ==
            LET summary == calculate_summary(column_results, dataset_test_results,
                                fk_check_results, cell_errors,
                                NumRows(heap[df]), Len(heap[df].columns))
            IN  [is_valid |-> blocking_errors = <<>> /\ summary.total_errors = 0,
                 summary |-> summary,
                 column_results |-> column_results,
                 dataset_test_results |-> dataset_test_results,
                 fk_check_results |-> fk_check_results,
                 cell_errors |-> cell_errors,
                 blocking_errors |-> blocking_errors]
        \* what the three loops leave behind: the first exception, or the result
        Outcome(columns, datasets, fks) ==
            LET raising == {k \in 1..Len(datasets) : datasets[k].outcome.raised}
            IN  IF raising # {}
                THEN Raised(datasets[CHOOSE k \in raising :
                                        \A m \in raising : k <= m].outcome.exc)
                ELSE Returned(Result(
                        DictValues(columns),
                        [k \in 1..Len(datasets) |-> datasets[k].outcome.value[1]],
                        Flatten([k \in 1..Len(fks) |-> fks[k].fk_result]),
                        Flatten([k \in 1..Len(columns) |-> columns[k].cell_errors]),
                        Flatten([k \in 1..Len(columns) |-> columns[k].blocking_errors])
                        \o Flatten([k \in 1..Len(datasets) |->
                                        datasets[k].blocking_errors])
                        \o Flatten([k \in 1..Len(fks) |-> fks[k].blocking_errors])))
        \* the loops over the processed copy
        Validate(processed) ==
            LET t  == processed.heap[processed.ref]
                fk == IF fk_dataframe = 0 THEN <<>>
                      ELSE <<processed.heap[fk_dataframe]>>
            IN  [heap |-> processed.heap,
                 outcome |->
                    Outcome([k \in 1..Len(contract.columns) |->
                                ColumnStep(t, contract, k, seed)],
                            [k \in 1..Len(contract.dataset_tests) |->
                                DatasetStep(t, contract, k, seed)],
                            [k \in 1..Len(contract.foreign_key_checks) |->
                                ForeignKeyStep(t, fk, contract, k, seed)])]
    IN  Validate(_apply_normalizations(heap, df, contract))


(***************************************************************************)
(* src/src/validation/engine.py: add_error_columns, and the names it uses  *)
(* from src/src/constants.py.                                              *)
(***************************************************************************)
ERROR_COLUMN_NAME == "__data_doctor_errors__"
ERROR_COUNT_COLUMN_NAME == "__data_doctor_error_count__"
STATUS_COLUMN_NAME == "__data_doctor_status__"

STATUS_PASS == "PASS"
STATUS_FAIL == "FAIL"

\* "|".join(errors): a str made of names and punctuation is the sequence of
\* its pieces
RECURSIVE JoinPipe(_)
JoinPipe(errors) ==
    IF errors = <<>> THEN <<>>
    ELSE IF Len(errors) = 1 THEN errors[1]
    ELSE errors[1] \o <<"|">> \o JoinPipe(Tail(errors))

\* add_error_columns(df, validation_result) on the table t: the table with
\* the three columns added.  The cells of the error column are strs, those
\* of the count column numbers, those of the status column PASS or FAIL.
add_error_columns(t, validation_result) ==
    LET cell_errors == validation_result.cell_errors
        error_str(cell_error) ==
            IF cell_error.error_message # NoDetail
            THEN <<cell_error.test_type, ":", cell_error.column_name>>
            ELSE <<cell_error.test_type>>
        row_errors(idx) ==
            LET of == SelectSeq([k \in 1..Len(cell_errors) |-> k],
                                LAMBDA k : cell_errors[k].row_index = idx)
            IN  [k \in 1..Len(of) |-> error_str(cell_errors[of[k]])]
        Cells(errors, column) ==
            CASE column = ERROR_COLUMN_NAME -> JoinPipe(errors)
              [] column = ERROR_COUNT_COLUMN_NAME -> Len(errors)
              [] column = STATUS_COLUMN_NAME ->
                    IF errors = <<>> THEN STATUS_PASS ELSE STATUS_FAIL
        added == <<ERROR_COLUMN_NAME, ERROR_COUNT_COLUMN_NAME, STATUS_COLUMN_NAME>>
    IN  Table(t.columns \o added, t.index,
              [c \in DOMAIN t.data \cup SeqToSet(added) |->
                  IF c \in SeqToSet(added)
                  THEN [k \in 1..NumRows(t) |-> Cells(row_errors(t.index[k]), c)]
                  ELSE t.data[c]])

(***************************************************************************)
(* src/src/remediation/transformers.py                                     *)
(***************************************************************************)
DEFAULT_NULL_TOKENS ==
    <<<<>>, <<"N", "A">>, <<"N", "/", "A">>, <<"n", "u", "l", "l">>,
      <<"N", "o", "n", "e">>, <<"N", "U", "L", "L">>, <<"n", "o", "n", "e">>>>

\* the functions below give the new cell for one cell; series.apply maps
\* them over the column; params is the default empty dict
transform_trim_whitespace(x) ==
    IF IsNull(x) THEN x ELSE StrCell(Strip(PyStr(x)))

transform_standardize_nulls(x) ==
    IF IsNull(x) THEN NullCell
    ELSE IF Strip(PyStr(x)) \in SeqToSet(DEFAULT_NULL_TOKENS) THEN NullCell
    ELSE x

transform_normalize_case(x) ==
    IF IsNull(x) THEN x ELSE StrCell(Lower(PyStr(x)))

transform_remove_non_printable(x) ==
    IF IsNull(x) THEN x ELSE StrCell(SelectSeq(PyStr(x), KeptCharacter))

\* the entries of COLUMN_TRANSFORMERS that the model has; the remediation
\* types of the contracts handed to run_remediation are these, types in no
\* registry, and deduplicate_rows
COLUMN_TRANSFORMERS ==
    {"trim_whitespace", "standardize_nulls", "normalize_case", "remove_non_printable"}

apply_column_remediation(values, remediation_type) ==
    [k \in 1..Len(values) |->
        CASE remediation_type = "trim_whitespace" -> transform_trim_whitespace(values[k])
          [] remediation_type = "standardize_nulls" ->
                transform_standardize_nulls(values[k])
          [] remediation_type = "normalize_case" -> transform_normalize_case(values[k])
          [] remediation_type = "remove_non_printable" ->
                transform_remove_non_printable(values[k])
          [] OTHER -> values[k]]

\* df.drop_duplicates(subset=params.get("subset"),
\* keep=params.get("keep", "first")): with keep "first" the rows that no
\* earlier row equals on the subset (every column when subset is None), with
\* keep "last" the rows that no later row equals, with their labels.
\* drop_duplicates raises KeyError for a subset that names a column the
\* table does not have (SubsetMissing), before anything is allocated.
SubsetMissing(t, params) ==
    /\ params.subset # <<>>
    /\ ~(SeqToSet(params.subset[1]) \subseteq SeqToSet(t.columns))

deduplicate_rows(t, params) ==
    LET subset == IF params.subset = <<>> THEN t.columns ELSE params.subset[1]
        others(k) == IF params.keep = "last" THEN (k + 1)..NumRows(t) ELSE 1..(k - 1)
        keep == Positions([k \in 1..NumRows(t) |->
                    \A m \in others(k) :
                        RowKey(t, m, subset) # RowKey(t, k, subset)])
    IN  Table(t.columns, [k \in 1..Len(keep) |-> t.index[keep[k]]],
              [c \in DOMAIN t.data |-> [k \in 1..Len(keep) |-> t.data[c][keep[k]]]])

\* the position of the first entry of type deduplicate_rows in the
\* remediation list of col_config, 0 when it has none
FirstDeduplicate(col_config) ==
    LET at == {j \in 1..Len(col_config.remediation) :
                    col_config.remediation[j] = "deduplicate_rows"}
    IN  IF at = {} THEN 0 ELSE CHOOSE j \in at : \A i \in at : j <= i

\* the dataset-level loop of run_remediation from column k on:
\*   for col_config in contract.columns:
\*       for rem in col_config.remediation:
\*           if rem.type == "deduplicate_rows":
\*               result_df = deduplicate_rows(result_df, rem.params); break
\* The break leaves the loop over the entries of one column; the loop over
\* the columns goes on.  Every call that returns allocates a table.
RECURSIVE DeduplicateColumns(_, _, _, _)
DeduplicateColumns(heap, result_df, columns, k) ==
    IF k > Len(columns) THEN [heap |-> heap, ref |-> result_df, raised |-> FALSE]
    ELSE IF FirstDeduplicate(columns[k]) = 0
         THEN DeduplicateColumns(heap, result_df, columns, k + 1)
         ELSE IF SubsetMissing(heap[result_df],
                               RemParams(columns[k], FirstDeduplicate(columns[k])))
              THEN [heap |-> heap, ref |-> result_df, raised |-> TRUE]
              ELSE DeduplicateColumns(
                      Append(heap, deduplicate_rows(heap[result_df],
                                 RemParams(columns[k], FirstDeduplicate(columns[k])))),
                      Len(heap) + 1, columns, k + 1)

\* the formats of default_formats that COMMON_DATE_FORMATS has in the
\* model, in their order
DATE_COERCE_DEFAULT_FORMATS == <<"YYYY-MM-DD", "MM/DD/YYYY", "DD/MM/YYYY", "YYYYMMDD">>

\* the params of date_coerce: accepted_input_formats is <<>> (the key is
\* absent) or <<list>>
DateCoerceParams(target_format, accepted_input_formats, excel_serial_enabled, on_parse_error) ==
    [target_format |-> target_format, accepted_input_formats |-> accepted_input_formats,
     excel_serial_enabled |-> excel_serial_enabled, on_parse_error |-> on_parse_error]

\* series.apply(coerce) on the cells of a column
transform_date_coerce(values, params, year_padded) ==
    LET accepted_formats == IF params.accepted_input_formats = <<>>
                            THEN DATE_COERCE_DEFAULT_FORMATS
                            ELSE params.accepted_input_formats[1]
        Coerced(value, result) ==
            IF result # <<>> THEN StrCell(result[1])
            ELSE IF params.on_parse_error = "set_null" THEN NullCell
            ELSE value
        coerce(value) ==
            IF IsNull(value) THEN value
            ELSE Coerced(value, coerce_date_to_format(PyStr(value), params.target_format,
                                    accepted_formats, params.excel_serial_enabled,
                                    year_padded))
    IN  [k \in 1..Len(values) |-> coerce(values[k])]

(***************************************************************************)
(* src/src/remediation/diff.py                                             *)
(***************************************************************************)
CellChange(row_index, column_name, original_value, new_value) ==
    [row_index |-> row_index, column_name |-> column_name,
     original_value |-> original_value, new_value |-> new_value]

\* change_rate_percent is in hundredths of a percent
ColumnDiff(column_name, total_values, changed_count, change_rate_percent, sample_changes) ==
    [column_name |-> column_name, total_values |-> total_values,
     changed_count |-> changed_count,
     change_rate_percent |-> change_rate_percent,
     sample_changes |-> sample_changes]

\* the parameters of compute_diff
compute_diff_parameters == {"original_df", "remediated_df", "max_samples_per_column"}

\* orig != new on two cells; pandas answers True when either is null
CellDiffers(o, n) == IsNull(o) \/ IsNull(n) \/ o # n

\* Comparing two columns whose row labels differ raises ValueError.
compute_diff(original_df, remediated_df, max_samples_per_column) ==
    LET shared == SelectSeq(original_df.columns,
                            LAMBDA c : HasColumn(remediated_df, c))
        Changed(c) == Positions([k \in 1..NumRows(original_df) |->
                        CellDiffers(original_df.data[c][k], remediated_df.data[c][k])])
        affected == SelectSeq(shared, LAMBDA c : Changed(c) # <<>>)
        DiffOf(c) ==
            LET at == Changed(c)
                shown == Take(at, max_samples_per_column)
            IN  ColumnDiff(c, NumRows(original_df), Len(at),
                    (20000 * Len(at) + NumRows(original_df))
                        \div (2 * NumRows(original_df)),
                    [k \in 1..Len(shown) |->
                        CellChange(original_df.index[shown[k]], c,
                                   original_df.data[c][shown[k]],
                                   remediated_df.data[c][shown[k]])])
        changed_rows == UNION {{original_df.index[Changed(c)[k]] :
                                    k \in 1..Len(Changed(c))} : c \in SeqToSet(affected)}
    IN  IF shared # <<>> /\ original_df.index # remediated_df.index
        THEN Raised("ValueError")
        ELSE Returned(
            [total_rows |-> NumRows(original_df),
             total_columns |-> Len(original_df.columns),
             rows_changed |-> Cardinality(changed_rows),
             cells_changed |-> Sum([k \in 1..Len(affected) |-> Len(Changed(affected[k]))]),
             columns_affected |-> affected,
             column_diffs |-> [k \in 1..Len(affected) |-> DiffOf(affected[k])],
             row_change_summary |->
                [r \in changed_rows |->
                    Cardinality({c \in SeqToSet(affected) :
                        \E k \in 1..Len(Changed(c)) :
                            original_df.index[Changed(c)[k]] = r})]])

(***************************************************************************)
(* src/src/remediation/engine.py                                           *)
(***************************************************************************)
\* the inner loop of run_remediation for one column config: its
\* remediations from position j on, applied to the column in table t
RECURSIVE RemediateColumn(_, _, _)
RemediateColumn(t, col_config, j) ==
    IF j > Len(col_config.remediation) THEN t
    ELSE LET rem_type == col_config.remediation[j]
             next == IF rem_type \in COLUMN_TRANSFORMERS
                     THEN SetColumn(t, col_config.name,
                            apply_column_remediation(t.data[col_config.name], rem_type))
                     ELSE t
         IN  RemediateColumn(next, col_config, j + 1)

RECURSIVE RemediateColumns(_, _, _)
RemediateColumns(t, columns, k) ==
    IF k > Len(columns) THEN t
    ELSE RemediateColumns(
            IF HasColumn(t, columns[k].name)
            THEN RemediateColumn(t, columns[k], 1) ELSE t,
            columns, k + 1)

\* column_treatments: for every column of the table that has remediations,
\* their types in order
ColumnTreatments(t, contract) ==
    LET named == SelectSeq(contract.columns,
                    LAMBDA c : HasColumn(t, c.name) /\ c.remediation # <<>>)
    IN  [k \in 1..Len(named) |->
            [column |-> named[k].name, treatments |-> named[k].remediation]]

SAMPLE_LIMIT == 1000

\* the keyword arguments of the call of compute_diff in run_remediation
compute_diff_keywords == {"max_samples_per_column", "column_treatments"}

\* run_remediation(df, contract), df being a reference into the heap.
\* Returns the heap after the call and the outcome: [df, diff] with the
\* reference of the remediated table, or the exception raised.  A call with
\* a keyword the callee does not have raises TypeError.
run_remediation(heap, df, contract) ==
    LET \* the call of compute_diff and the return
        Compare(heap2, result_df) ==
            LET total_rows == NumRows(heap2[df])
                max_samples == IF total_rows < SAMPLE_LIMIT THEN total_rows
                               ELSE SAMPLE_LIMIT
                Return(diff) ==
                    IF diff.raised THEN diff
                    ELSE Returned([df |-> result_df, diff |-> diff.value[1]])
            IN  [heap |-> heap2,
                 outcome |->
                    IF ~(compute_diff_keywords \subseteq compute_diff_parameters)
                    THEN Raised("TypeError")
                    ELSE Return(compute_diff(heap2[df], heap2[result_df], max_samples))]
        \* the row treatment, on the copy after the column treatments
        Deduplicated(d) ==
            IF d.raised THEN [heap |-> d.heap, outcome |-> Raised("KeyError")]
            ELSE Compare(d.heap, d.ref)
        Rows(heap1, ref) ==
            Deduplicated(DeduplicateColumns(heap1, ref, contract.columns, 1))
        \* the column treatments, on the copy
        Columns(c) ==
            Rows([c.heap EXCEPT
                    ![c.ref] = RemediateColumns(c.heap[c.ref], contract.columns, 1)],
                 c.ref)
    IN  Columns(df_copy(heap, df))

\* preview_remediation: run_remediation on a copy of the first rows
PREVIEW_ROWS == 100

head(t, n) ==
    Table(t.columns, Take(t.index, n), [c \in DOMAIN t.data |-> Take(t.data[c], n)])

preview_remediation(heap, df, contract) ==
    LET sample_df == df_copy(Append(heap, head(heap[df], PREVIEW_ROWS)), Len(heap) + 1)
    IN  run_remediation(sample_df.heap, sample_df.ref, contract)


\* The action apply_failure_handling takes for a cell error: the action of
\* the first test of the column with the error's type and an on_fail, else
\* the action of the column; <<>> when the contract has no such column.
ErrorAction(contract, cell_error) ==
    LET Action(col_config) ==
            LET overriding == {k \in 1..Len(col_config.tests) :
                                  /\ col_config.tests[k].type = cell_error.test_type
                                  /\ col_config.tests[k].on_fail # <<>>}
            IN  IF overriding = {} THEN col_config.failure_handling[1].action
                ELSE col_config.tests[CHOOSE k \in overriding :
                                        \A m \in overriding : k <= m].on_fail[1].action
        Found(col_config) == IF col_config = <<>> THEN <<>> ELSE <<Action(col_config[1])>>
    IN  Found(_get_column_config(contract, cell_error.column_name))

\* Fault variant of RowsToRemove: quarantined rows stay in the result.
RowsToRemove_dropped_only(drop_rows, quarantine_rows) == drop_rows

\* set(drop_rows + quarantine_rows)
RowsToRemove(drop_rows, quarantine_rows) == drop_rows \cup quarantine_rows

\* apply_failure_handling(df, contract, validation_result) on the table t:
\* the three values returned.  named_quarantines maps every export name
\* used to its table.
apply_failure_handling(t, contract, validation_result) ==
    LET cell_errors == validation_result.cell_errors
        WithAction(action) ==
            {k \in 1..Len(cell_errors) : ErrorAction(contract, cell_errors[k]) = <<action>>}
        RowsOf(errors) == {cell_errors[k].row_index : k \in errors}
        ExportName(k) ==
            _get_column_config(contract, cell_errors[k].column_name)[1]
                .failure_handling[1].quarantine_export_name
        Rows(rows) ==
            FilterRows(t, [k \in 1..NumRows(t) |-> t.index[k] \in rows])
        Nulled(nulled) ==
            [t EXCEPT !.data =
                [c \in DOMAIN t.data |->
                    [k \in 1..NumRows(t) |->
                        IF \E e \in nulled : /\ cell_errors[e].row_index = t.index[k]
                                             /\ cell_errors[e].column_name = c
                        THEN NullCell ELSE t.data[c][k]]]]
        Remove(result_df, removed) ==
            FilterRows(result_df, [k \in 1..NumRows(t) |-> t.index[k] \notin removed])
        Build(nulled, dropped, quarantined) ==
            [clean_df |-> Remove(Nulled(nulled),
                                 RowsToRemove(RowsOf(dropped), RowsOf(quarantined))),
             quarantine_df |-> Rows(RowsOf(quarantined)),
             named_quarantines |->
                [q_name \in {ExportName(k) : k \in {e \in quarantined : ~Falsy(ExportName(e))}} |->
                    Rows(RowsOf({k \in quarantined : ExportName(k) = q_name}))]]
    IN  Build(WithAction("set_null"), WithAction("drop_row"), WithAction("quarantine_row"))

(***************************************************************************)
(* src/src/contract/builder.py                                             *)
(***************************************************************************)
BUILDER_BOOLEAN_TOKENS ==
    {<<"t", "r", "u", "e">>, <<"f", "a", "l", "s", "e">>, <<"y", "e", "s">>,
     <<"n", "o">>, <<"1">>, <<"0">>, <<"t">>, <<"f">>, <<"y">>, <<"n">>,
     <<"o", "n">>, <<"o", "f", "f">>}

INFER_SAMPLE == 20

\* infer_data_type on a column as read from a file: a column of integers
\* has an integer dtype, integers with nulls a float dtype, anything with a
\* string the object dtype.  The column names of the model do not contain
\* "date" and its strings are not dates.
infer_data_type(series) ==
    LET non_null == dropna(series).values
        sample == Take(non_null, INFER_SAMPLE)
        All(Test(_)) == \A k \in 1..Len(sample) : Test(sample[k])
    IN  IF non_null = <<>> THEN "text"
        ELSE IF \A k \in 1..Len(non_null) : non_null[k].t = "int"
        THEN (IF Len(non_null) = Len(series.values) THEN "integer" ELSE "float")
        ELSE IF All(LAMBDA x : Strip(Lower(PyStr(x))) \in BUILDER_BOOLEAN_TOKENS)
        THEN "boolean"
        ELSE IF All(LAMBDA x :
                    LET s == Strip(SelectSeq(PyStr(x), LAMBDA c : c # ","))
                    IN  s # <<>> /\ IsDigits(IF s[1] = "-" THEN Tail(s) ELSE s)
                        /\ s # <<"-">>)
        THEN "integer"
        ELSE IF All(LAMBDA x :
                    ParseNumber(SelectSeq(PyStr(x), LAMBDA c : c \notin {",", "$"})).ok)
        THEN "float"
        ELSE "text"

\* build_contract_from_dataframe with no ignored columns
build_contract_from_dataframe(df) ==
    Contract("1.0",
        [k \in 1..Len(df.columns) |->
            [ColumnConfig(df.columns[k], infer_data_type(Column(df, df.columns[k])),
                <<FailureHandling("label_failure", "__data_doctor_errors__", NONE)>>,
                <<>>, <<>>)
             EXCEPT !.normalization =
                <<Normalization(TRUE, DEFAULT_NULL_TOKENS, "none", TRUE)>>]],
        <<>>, <<>>)

(***************************************************************************)
(* src/src/session.py, src/app.py and src/src/ui: the wizard.              *)
(*                                                                         *)
(* session is st.session_state: the keys the handlers below read and       *)
(* write; <<>> is None for the keys that hold an object.  A script run     *)
(* ends either in a handler (which ends in st.rerun()) or by rendering the *)
(* page of the current step; an action of the model is one user input:     *)
(* the handler it triggers followed by the script runs up to the page      *)
(* that waits for the next input.                                          *)
(***************************************************************************)
\* initialize_session_state on an empty st.session_state
initialize_session_state ==
    [current_step |-> 1, show_privacy_page |-> FALSE, upload_mode |-> NONE,
     file_hash |-> NONE, dataframe |-> <<>>, uploaded_contract |-> <<>>,
     contract |-> <<>>, contract_source |-> NONE,
     validation_results |-> <<>>, validation_complete |-> FALSE,
     remediation_approved |-> FALSE, remediated_dataframe |-> <<>>,
     remediation_diff |-> <<>>]

reset_session_state == initialize_session_state

\* reset_from_step(1): everything but the upload timestamps
reset_from_step_1 == reset_session_state

set_current_step(s, step) ==
    [s EXCEPT !.current_step = IF step < 1 THEN 1 ELSE IF step > 6 THEN 6 ELSE step]

EngineCall(fn, contract) == [fn |-> fn, contract |-> contract]

\* _ensure_contract_exists, run at the top of every render of step 2
_ensure_contract_exists(s) ==
    IF s.uploaded_contract # <<>> /\ s.contract = <<>>
    THEN [s EXCEPT !.contract = s.uploaded_contract, !.contract_source = "uploaded"]
    ELSE IF s.contract = <<>>
    THEN [s EXCEPT !.contract = <<build_contract_from_dataframe(s.dataframe[1])>>,
                   !.contract_source = "built"]
    ELSE s

\* the configs of the contract for the columns of the loaded table, which
\* are the ones steps 2 and 3 render widgets for
Configured(s, k) ==
    /\ k \in 1..Len(s.contract[1].columns)
    /\ HasColumn(s.dataframe[1], s.contract[1].columns[k].name)
    /\ _get_column_config(s.contract[1], s.contract[1].columns[k].name)
            = <<s.contract[1].columns[k]>>

\* _render_column_cleaning on a render of step 3 with no input: the case
\* select box shows "As Entered" for a normalize_case remediation without a
\* case parameter, and the remediation is removed
_render_column_cleaning(s) ==
    [s EXCEPT !.contract[1].columns =
        [k \in 1..Len(s.contract[1].columns) |->
            IF Configured(s, k)
            THEN [s.contract[1].columns[k] EXCEPT !.remediation =
                    SelectSeq(@, LAMBDA r : r # "normalize_case")]
            ELSE s.contract[1].columns[k]]]

\* _run_validation(df, contract): returns the session and the engine call
\* made, if any.  An exception raised by run_validation leaves the script.
_run_validation(s, seed) ==
    LET contract == s.contract[1]
        Store(call) ==
            [session |->
                IF call.outcome.raised THEN s
                ELSE [s EXCEPT !.validation_results = call.outcome.value,
                               !.validation_complete = TRUE],
             call |-> <<EngineCall("run_validation", contract)>>]
    IN  IF ~validate_contract(contract).is_valid
        THEN [session |-> s, call |-> <<>>]
        ELSE Store(run_validation(<<s.dataframe[1]>>, 1, contract, 0, seed))

\* the script runs after a handler, up to the page that waits for input
Render(s, seed) ==
    IF s.show_privacy_page THEN [session |-> s, call |-> <<>>]
    ELSE IF s.current_step = 2 /\ s.dataframe # <<>>
    THEN [session |-> _ensure_contract_exists(s), call |-> <<>>]
    ELSE IF s.current_step = 3 /\ s.dataframe # <<>> /\ s.contract # <<>>
    THEN [session |-> _render_column_cleaning(s), call |-> <<>>]
    ELSE IF s.current_step = 4 /\ s.dataframe # <<>> /\ s.contract # <<>>
            /\ s.validation_results = <<>>
    THEN _run_validation(s, seed)
    ELSE [session |-> s, call |-> <<>>]


(***************************************************************************)
(* Contracts handed to validate_contract.                                  *)
(*                                                                         *)
(* The inputs are bounded families of Contract objects, each varying one   *)
(* part of the contract over values that the YAML parser or the wizard     *)
(* can produce (including absent and empty strings) while the rest is a    *)
(* well-formed one-column contract.                                        *)
(***************************************************************************)
MaxColumns == 3

ColumnNameChoices == {"", "a", "b"}
DataTypeChoices   == {"string", "money"}

ActionChoices ==
    {NONE, "", "strict_fail", "label_failure", "quarantine_row", "explode"}

HandlerChoices ==
    {FailureHandling(a, l, q) :
        a \in ActionChoices, l \in {NONE, "err_label"}, q \in {NONE, "bad_rows"}}

OptHandlerChoices == {<<>>} \cup {<<h>> : h \in HandlerChoices}

PlainColumn(name, data_type) ==
    ColumnConfig(name, data_type, <<DefaultFailureHandling>>, <<>>, <<>>)

GoodColumn == PlainColumn("a", "string")

GoodForeignKey(on_fail) ==
    ForeignKeyCheck("fk", "a", "ref.csv", "id", TRUE, FALSE, on_fail)

\* 1. the column list: names and data types
ColumnListContracts ==
    {Contract("1.0", cols, <<>>, <<>>) :
        cols \in UNION {[1..k -> {PlainColumn(n, d) : n \in ColumnNameChoices,
                                                      d \in DataTypeChoices}]
                        : k \in 0..MaxColumns}}
    \cup {Contract("", <<GoodColumn>>, <<>>, <<>>)}

\* 2. the four places a failure handler can stand
ColumnHandlerContracts ==
    {Contract("1.0",
              <<ColumnConfig("a", "string", <<h>>,
                             <<TestConfig("not_null", "error", NoTestParams, o)>>,
                             <<>>)>>,
              <<>>, <<>>) :
        h \in HandlerChoices, o \in OptHandlerChoices}

DatasetHandlerContracts ==
    {Contract("1.0", <<GoodColumn>>,
              <<DatasetTest("duplicate_rows", "error", NoDatasetParams, o)>>,
              <<GoodForeignKey(<<h>>)>>) :
        o \in OptHandlerChoices, h \in HandlerChoices}

\* 3. column tests: type, severity, date_rule parameters, remediation types
SeverityChoices == {NONE, "", "error", "warning", "fatal"}

AcceptedChoices ==
    {NoAccepted, Accepted(TRUE, <<>>), Accepted(TRUE, <<"YYYY-MM-DD">>),
     Accepted(FALSE, <<"YYYY-MM-DD">>)}

ColumnTestChoices ==
    {TestConfig(t, s, NoTestParams, <<>>) :
        t \in {NONE, "", "not_null", "duplicate_rows", "sniff"},
        s \in SeverityChoices}
    \cup {TestConfig("date_rule", s, TestParams(tf, m, acc, NONE), <<>>) :
            s \in {"error", "fatal"}, tf \in {NONE, "YYYY-MM-DD"},
            m \in {NONE, "simple", "robust"}, acc \in AcceptedChoices}

ColumnTestContracts ==
    {Contract("1.0",
              <<ColumnConfig("a", "string", <<DefaultFailureHandling>>, <<t>>, rem)>>,
              <<>>, <<>>) :
        t \in ColumnTestChoices,
        rem \in {<<>>, <<"trim_whitespace">>, <<"remove_punctuation">>}}

\* 4. dataset tests: type, severity, column references
DatasetTestContracts ==
    {Contract("1.0", <<GoodColumn>>,
              <<DatasetTest(t, s, DatasetParams(k, n, <<>>, NONE, <<"a", " ", "=", "=", " ", "a">>), <<>>)>>,
              <<>>) :
        t \in {NONE, "", "duplicate_rows", "cross_field_rule", "not_null", "sniff"},
        s \in SeverityChoices,
        k \in {<<>>, <<"a">>, <<"ghost">>},
        n \in {<<>>, <<"ghost">>}}

\* 5. foreign key checks
ForeignKeyContracts ==
    {Contract("1.0", <<GoodColumn>>, <<>>,
              <<ForeignKeyCheck(nm, dc, ff, fc, inh, FALSE,
                                <<DefaultFailureHandling>>)>>) :
        nm \in {"", "fk"}, dc \in {NONE, "a", "ghost"}, ff \in {"", "ref.csv"},
        fc \in {"", "id"}, inh \in BOOLEAN}

ContractInputs ==
    ColumnListContracts \cup ColumnHandlerContracts \cup DatasetHandlerContracts
    \cup ColumnTestContracts \cup DatasetTestContracts \cup ForeignKeyContracts

(***************************************************************************)
(* Specification 1: one call of validate_contract on a contract.           *)
(***************************************************************************)
CvInit ==
    /\ cv_contract \in ContractInputs
    /\ cv_result = <<>>

CvParked ==
    /\ cv_contract = Contract("1.0", <<GoodColumn>>, <<>>, <<>>)
    /\ cv_result = <<>>

ColParked ==
    /\ col_input = <<>>
    /\ col_seed = 1
    /\ col_runs = <<>>

DateParked ==
    /\ dt_input = <<>>
    /\ dt_out = <<>>

EngParked ==
    /\ eng_heap = <<>>
    /\ eng_args = <<>>
    /\ eng_before = <<>>
    /\ eng_out = <<>>

WizParked ==
    /\ session = <<>>
    /\ last_call = <<>>

UpParked ==
    /\ up_session = <<>>
    /\ up_now = 0
    /\ up_log = <<>>

CallValidateContract ==
    /\ cv_result = <<>>
    /\ cv_result' = <<validate_contract(cv_contract)>>
    /\ UNCHANGED cv_contract

SpecContractInit == CvInit /\ ColParked /\ DateParked /\ EngParked /\ WizParked /\ UpParked

SpecContractNext ==
    CallValidateContract /\ UNCHANGED <<colVars, dateVars, engVars, wizVars, upVars>>

SpecContract == SpecContractInit /\ [][SpecContractNext]_vars

(***************************************************************************)
(* Properties of validate_contract.                                        *)
(***************************************************************************)
(* Specification 2: calls of run_column_test on one column, by one Python  *)
(* process or by several (a restarted process has another hash seed).      *)
(***************************************************************************)
MaxRows  == 4
LongRows == 101
MaxRuns  == 2

HashSeeds == {1, 7}

\* all series of at most MaxRows cells over a set of cells
ShortSeries(cells) ==
    {Series(RangeIndex(Len(v)), v) : v \in UNION {[1..m -> cells] : m \in 0..MaxRows}}

\* a series of LongRows copies of one cell
LongSeries(cell) == Series(RangeIndex(LongRows), [k \in 1..LongRows |-> cell])

ColumnInput(series, test_type, data_type, params) ==
    [series |-> series, test_type |-> test_type, data_type |-> data_type,
     params |-> params]

MonotonicInputs ==
    {ColumnInput(s, "monotonic", "integer", TestParams(NONE, NONE, NoAccepted, d)) :
        s \in ShortSeries({NullCell, IntCell(1), IntCell(2), IntCell(3), StrCell(<<"a">>)}),
        d \in {NONE, "ascending", "descending"}}

UniquenessInputs ==
    {ColumnInput(s, t, "string", [NoTestParams EXCEPT !.allow_nulls = an]) :
        s \in ShortSeries({NullCell, StrCell(<<"a">>), StrCell(<<"b">>)})
              \cup {LongSeries(NullCell), LongSeries(StrCell(<<"a">>))},
        t \in {"uniqueness", "not_null"}, an \in BOOLEAN}

ConformanceInputs ==
    {ColumnInput(s, t, d, NoTestParams) :
        s \in ShortSeries({NullCell, IntCell(1), StrCell(<<"a">>)})
              \cup {LongSeries(StrCell(<<"a">>))},
        t \in {"type_conformance", "sniff"},
        d \in {"string", "integer", "float", "boolean"}}

\* amounts written with a currency sign, thousands separators or decimals
MoneyCells ==
    {NullCell, StrCell(<<"$", "1", ",", "0", "0", "0">>),
     StrCell(<<"$", "1", ",", "0", "0", "0", ".", "5", "0">>),
     StrCell(<<"1", "$", "0">>)}

MoneyInputs ==
    {ColumnInput(s, "type_conformance", d, NoTestParams) :
        s \in ShortSeries(MoneyCells), d \in {"integer", "float"}}

\* the pattern test in its three tiers, and with no pattern given
PatternCells ==
    {NullCell, StrCell(<<"A", "B", "1", "2", "3">>),
     StrCell(<<"A", "B", "1", "2", "3", "x", "y", "z">>),
     StrCell(<<"1", "2", "3", "4", "5", "\n">>)}

CodeRegex(caret, dollar) ==
    Regex(caret, <<Atom(AsciiUpper, 2, <<2>>), Atom(DigitSet, 3, <<3>>)>>, dollar)

PatternParams ==
    {[NoTestParams EXCEPT !.tier = "preset", !.preset_name = "zip_us_5"],
     [NoTestParams EXCEPT !.preset_name = "letters_only"],
     NoTestParams,
     [NoTestParams EXCEPT !.tier = "builder",
        !.builder = <<BuilderParams(<<"digits">>, <<3>>, <<>>, <<>>, <<"A", "B">>, <<>>)>>],
     [NoTestParams EXCEPT !.tier = "builder",
        !.builder = <<BuilderParams(<<"uppercase", "digits">>, <<>>, <<1>>, <<5>>,
                                    <<>>, <<>>)>>],
     [NoTestParams EXCEPT !.tier = "builder"],
     [NoTestParams EXCEPT !.tier = "advanced", !.pattern = <<CodeRegex(FALSE, FALSE)>>],
     [NoTestParams EXCEPT !.tier = "advanced", !.pattern = <<CodeRegex(TRUE, TRUE)>>],
     [NoTestParams EXCEPT !.tier = "advanced"]}

PatternInputs ==
    {ColumnInput(s, "pattern", "string", params) :
        s \in ShortSeries(PatternCells), params \in PatternParams}

\* date_window with its bounds under the keys the contract page writes
\* (not_before, not_after) or under the keys min_date and max_date
January(day) == <<"2", "0", "2", "5", "-", "0", "1", "-", "0", day>>

DateWindowCells ==
    {NullCell, StrCell(January("1")), StrCell(January("3")), StrCell(<<"a", "b">>)}

DateWindowParams ==
    {[NoTestParams EXCEPT !.not_before = nb, !.not_after = na] :
        nb \in {<<>>, January("1"), January("2")},
        na \in {<<>>, January("2"), January("3")}}
    \cup {[NoTestParams EXCEPT !.min_date = nb, !.max_date = na] :
        nb \in {<<>>, January("1"), January("2")},
        na \in {<<>>, January("2"), January("3")}}

DateWindowInputs ==
    {ColumnInput(s, "date_window", "date", params) :
        s \in ShortSeries(DateWindowCells), params \in DateWindowParams}

DateRuleInputs ==
    {ColumnInput(s, "date_rule", "date",
                 [TestParams("YYYY-MM-DD", m, Accepted(TRUE, <<"MMDDYY">>), NONE)
                    EXCEPT !.excel_serial_enabled = x]) :
        s \in ShortSeries({NullCell, IntCell(45000),
                           StrCell(<<"0", "1", "0", "1", "2", "5">>)}),
        m \in {"simple", "robust"}, x \in BOOLEAN}

ColumnInputs ==
    MonotonicInputs \cup UniquenessInputs \cup ConformanceInputs \cup MoneyInputs
    \cup PatternInputs \cup DateWindowInputs \cup DateRuleInputs

ColInit ==
    /\ col_input \in ColumnInputs
    /\ col_seed \in HashSeeds
    /\ col_runs = <<>>

CallRunColumnTest ==
    /\ Len(col_runs) < MaxRuns
    /\ col_runs' = Append(col_runs,
            run_column_test(col_input.test_type, col_input.series, "a",
                            col_input.data_type, "error", col_input.params,
                            col_seed))
    /\ UNCHANGED <<col_input, col_seed>>

\* the application is started again: a new process, a new hash seed
RestartProcess ==
    /\ col_seed' \in HashSeeds \ {col_seed}
    /\ UNCHANGED <<col_input, col_runs>>

SpecColumnInit == ColInit /\ CvParked /\ DateParked /\ EngParked /\ WizParked /\ UpParked

SpecColumnNext ==
    (CallRunColumnTest \/ RestartProcess)
    /\ UNCHANGED <<cvVars, dateVars, engVars, wizVars, upVars>>

SpecColumn == SpecColumnInit /\ [][SpecColumnNext]_vars

(***************************************************************************)
(* Specification 3: one call into date_formats.py, or of test_date_rule on *)
(* a one-cell column, with the same value.                                 *)
(***************************************************************************)
DateValues ==
    {<<"0", "1", "0", "1", "2", "5">>,
     <<" ", "0", "1", "0", "1", "2", "5", " ">>,
     <<"0", "1", "/", "0", "2", "/", "2", "0", "2", "5">>,
     <<"1", "/", "2", "/", "2", "0", "2", "5">>,
     <<"1", "3", "/", "0", "1", "/", "2", "0", "2", "5">>,
     <<"2", "0", "2", "5", "-", "0", "1", "-", "0", "7">>,
     <<"2", "0", "2", "5", "-", "0", "2", "-", "3", "0">>,
     <<"2", "0", "2", "5", "0", "1", "0", "7">>,
     <<"4", "5", "0", "0", "0">>,
     <<"1", "0", "6", "7", "5", "2">>,
     <<"2", "9", "5", "8", "4", "6", "6">>,
     <<"0">>, <<"-", "5">>, <<"1">>, <<"n", "a", "n">>, <<"a", "b">>, <<>>}

FormatLists ==
    {<<>>, <<"YYYY-MM-DD">>, <<"MMDDYY">>, <<"YYYYMMDD", "MMDDYY">>,
     <<"MM/DD/YYYY", "DD/MM/YYYY">>, <<"DD/MM/YYYY", "MM/DD/YYYY">>,
     <<"YYYY-MM-DD", "DD/MM/YYYY", "MMDDYY">>}

DateInit ==
    /\ dt_input \in [value : DateValues, accepted_formats : FormatLists,
                     excel_serial_enabled : BOOLEAN]
    /\ dt_out = <<>>

DateOut(call, parsed, matched, failed) ==
    [call |-> call, parsed |-> parsed, matched |-> matched, failed |-> failed]

CallTryParseDateRobust ==
    /\ dt_out = <<>>
    /\ LET r == try_parse_date_robust(dt_input.value, dt_input.accepted_formats,
                                      dt_input.excel_serial_enabled)
       IN  dt_out' = <<DateOut("try_parse_date_robust", r.parsed, r.matched,
                               r.parsed = <<>>)>>
    /\ UNCHANGED dt_input

\* a direct call with a whole number of days, in either date system
CallParseExcelSerialDate ==
    /\ dt_out = <<>>
    /\ ParseNumber(dt_input.value).ok /\ ~ParseNumber(dt_input.value).nan
    /\ \E date_system \in {"1900", "1904"} :
          dt_out' = <<DateOut(date_system,
                        parse_excel_serial_date(ParseNumber(dt_input.value).value,
                                                date_system),
                        NONE, FALSE)>>
    /\ UNCHANGED dt_input

\* date_rule in robust mode on a column holding the value
CallTestDateRule ==
    /\ dt_out = <<>>
    /\ LET params == [TestParams("YYYY-MM-DD", "robust",
                                 Accepted(TRUE, dt_input.accepted_formats), NONE)
                        EXCEPT !.excel_serial_enabled = dt_input.excel_serial_enabled]
           r == test_date_rule(Series(<<0>>, <<StrCell(dt_input.value)>>), "a",
                               "error", params)
       IN  dt_out' = <<DateOut("test_date_rule", <<>>, NONE, ~r.passed)>>
    /\ UNCHANGED dt_input

SpecDateInit == DateInit /\ CvParked /\ ColParked /\ EngParked /\ WizParked /\ UpParked

\* date_coerce on a column holding the value, and on the column it
\* returns
CallTransformDateCoerce ==
    /\ dt_out = <<>>
    /\ \E target_format \in DOMAIN COMMON_DATE_FORMATS,
          accepted \in {<<>>, <<dt_input.accepted_formats>>},
          on_parse_error \in {"keep", "set_null"}, year_padded \in BOOLEAN :
          LET params == DateCoerceParams(target_format, accepted,
                            dt_input.excel_serial_enabled, on_parse_error)
              Done(once) ==
                dt_out' = <<[call |-> "transform_date_coerce", parsed |-> <<>>,
                             matched |-> NONE, failed |-> FALSE,
                             params |-> params, once |-> once,
                             year_padded |-> year_padded,
                             twice |-> transform_date_coerce(once, params, year_padded)]>>
          IN  Done(transform_date_coerce(<<StrCell(dt_input.value)>>, params, year_padded))
    /\ UNCHANGED dt_input

SpecDateNext ==
    (CallTryParseDateRobust \/ CallParseExcelSerialDate \/ CallTestDateRule
        \/ CallTransformDateCoerce)
    /\ UNCHANGED <<cvVars, colVars, engVars, wizVars, upVars>>

SpecDate == SpecDateInit /\ [][SpecDateNext]_vars

(***************************************************************************)
(* Specification 4: one call of run_validation, run_remediation or         *)
(* preview_remediation on a table in memory and a contract.  eng_heap holds *)
(* the DataFrame objects; eng_args the arguments of the call (references   *)
(* into the heap, fk_dataframe 0 for None), eng_before what the arguments  *)
(* referred to before the call, eng_out the outcome of the call.           *)
(***************************************************************************)
MaxTableRows == 2

EngineCells == {StrCell(<<" ", "a">>), StrCell(<<"A">>), StrCell(<<"N", "A">>), IntCell(1), NullCell}

PairCells == {StrCell(<<"A">>), NullCell}

CellRows(cells, n) == [1..n -> cells]

\* tables as read from a file: one column a, or two columns a and b
EngineTables ==
    UNION {{Table(<<"a">>, RangeIndex(n), [c \in {"a"} |-> cells]) :
                cells \in CellRows(EngineCells, n)} : n \in 0..MaxTableRows}
    \cup UNION {{Table(<<"a", "b">>, RangeIndex(n),
                       [c \in {"a", "b"} |-> IF c = "a" THEN as ELSE bs]) :
                as \in CellRows(PairCells, n), bs \in CellRows(PairCells, n)} :
                n \in 1..MaxTableRows}

ReferenceTable ==
    Table(<<"id">>, RangeIndex(2), [c \in {"id"} |-> <<StrCell(<<"a">>), IntCell(1)>>])

DefaultNormalization ==
    Normalization(TRUE,
        <<<<>>, <<"N", "A">>, <<"N", "/", "A">>, <<"n", "u", "l", "l">>,
          <<"N", "o", "n", "e">>>>, "none", TRUE)

EngineTest(type, severity) ==
    TestConfig(type, severity, NoTestParams, <<DefaultFailureHandling>>)

EngineColumn(name, normalization, tests, remediation) ==
    [ColumnConfig(name, "string", <<DefaultFailureHandling>>, tests, remediation)
        EXCEPT !.normalization = normalization]

EngineDatasetTest(type, params) ==
    DatasetTest(type, "error", params, <<DefaultFailureHandling>>)

EngineColumnLists ==
    {<<EngineColumn("a", <<>>, <<EngineTest("not_null", "error")>>, <<>>)>>,
     <<EngineColumn("a", <<DefaultNormalization>>,
                    <<EngineTest("not_null", "warning")>>, <<"trim_whitespace">>)>>,
     <<EngineColumn("a", <<[DefaultNormalization EXCEPT !.case = "lower"]>>,
                    <<EngineTest("uniqueness", "error")>>,
                    <<"trim_whitespace", "normalize_case">>)>>,
     <<EngineColumn("a", <<>>, <<>>, <<"standardize_nulls", "deduplicate_rows">>)>>,
     <<EngineColumn("a", <<>>, <<>>, <<"remove_non_printable">>),
       EngineColumn("b", <<>>, <<EngineTest("not_null", "error")>>, <<>>)>>,
     <<EngineColumn("a", <<>>, <<>>, <<"remove_punctuation">>)>>,
     <<[EngineColumn("a", <<>>, <<EngineTest("pattern", "error")>>, <<>>)
            EXCEPT !.failure_handling = <<FailureHandling("label_failure", NONE, NONE)>>]>>,
     <<[EngineColumn("a", <<>>, <<EngineTest("not_null", "warning"),
                                  EngineTest("checksum", "error")>>, <<>>)
            EXCEPT !.failure_handling = <<FailureHandling("drop_row", NONE, NONE)>>]>>,
     <<EngineColumn("a", <<>>, <<EngineTest("pattern", "error")>>, <<>>)>>,
     <<EngineColumn("a", <<>>, <<>>, <<"trim_whitespace", "deduplicate_rows">>),
       EngineColumn("b", <<>>, <<>>, <<"deduplicate_rows">>)>>,
     <<[EngineColumn("a", <<>>, <<>>, <<"deduplicate_rows">>)
            EXCEPT !.remediation_params = <<RemediationParams(<<<<"a">>>>, "first")>>],
       [EngineColumn("b", <<>>, <<>>, <<"deduplicate_rows", "trim_whitespace">>)
            EXCEPT !.remediation_params =
                <<RemediationParams(<<<<"b">>>>, "last"), NoRemediationParams>>]>>}

EngineDatasetTests ==
    {<<>>,
     <<EngineDatasetTest("duplicate_rows", NoDatasetParams)>>,
     <<EngineDatasetTest("duplicate_rows",
            [NoDatasetParams EXCEPT !.subset = <<<<"ghost">>>>]),
       EngineDatasetTest("primary_key_completeness",
            [NoDatasetParams EXCEPT !.key_columns = <<"a">>])>>,
     <<EngineDatasetTest("outliers_iqr", [NoDatasetParams EXCEPT !.column = "ghost"])>>,
     <<EngineDatasetTest("primary_key_uniqueness",
            [NoDatasetParams EXCEPT !.key_columns = <<"a">>])>>}

EngineForeignKeys ==
    {<<>>,
     <<ForeignKeyCheck("fk", "a", "ref.csv", "id", TRUE, FALSE,
                       <<DefaultFailureHandling>>)>>,
     <<ForeignKeyCheck("fk", "a", "ref.csv", "id", TRUE, TRUE,
                       <<DefaultFailureHandling>>)>>}

\* every column list with no dataset test and no foreign key, the first
\* column list with each of the others, and a normalized column with each
\* foreign key
EngineContracts ==
    {Contract("1.0", columns, <<>>, <<>>) : columns \in EngineColumnLists}
    \cup {Contract("1.0",
            <<EngineColumn("a", <<>>, <<EngineTest("not_null", "error")>>, <<>>)>>,
            dataset_tests, fks) :
            dataset_tests \in EngineDatasetTests, fks \in EngineForeignKeys}
    \cup {Contract("1.0",
            <<EngineColumn("a", <<[DefaultNormalization EXCEPT !.case = "lower"]>>,
                           <<>>, <<>>)>>,
            <<>>, fks) : fks \in EngineForeignKeys \ {<<>>}}

EngInit ==
    /\ \E t \in EngineTables, fk \in {0, 2} :
          /\ eng_heap = IF fk = 0 THEN <<t>> ELSE <<t, ReferenceTable>>
          /\ \E contract \in EngineContracts, seed \in HashSeeds :
                eng_args = [df |-> 1, fk_dataframe |-> fk,
                            contract |-> contract, seed |-> seed]
    /\ eng_before = [heap |-> eng_heap, contract |-> eng_args.contract]
    /\ eng_out = <<>>

EngOut(fn, outcome) ==
    [fn |-> fn, raised |-> outcome.raised, exc |-> outcome.exc, value |-> outcome.value]

CallRunValidation ==
    /\ eng_out = <<>>
    /\ LET Done(call) == /\ eng_heap' = call.heap
                          /\ eng_out' = <<EngOut("run_validation", call.outcome)>>
       IN  Done(run_validation(eng_heap, eng_args.df, eng_args.contract, eng_args.fk_dataframe, eng_args.seed))
    /\ UNCHANGED <<eng_args, eng_before>>

CallRunRemediation ==
    /\ eng_out = <<>>
    /\ LET Done(call) == /\ eng_heap' = call.heap
                          /\ eng_out' = <<EngOut("run_remediation", call.outcome)>>
       IN  Done(run_remediation(eng_heap, eng_args.df, eng_args.contract))
    /\ UNCHANGED <<eng_args, eng_before>>

CallPreviewRemediation ==
    /\ eng_out = <<>>
    /\ LET Done(call) == /\ eng_heap' = call.heap
                          /\ eng_out' = <<EngOut("preview_remediation", call.outcome)>>
       IN  Done(preview_remediation(eng_heap, eng_args.df, eng_args.contract))
    /\ UNCHANGED <<eng_args, eng_before>>

\* the default of max_samples_per_column
MAX_SAMPLES_DEFAULT == 10

\* compute_diff(original_df, remediated_df): the table compared with itself
\* or with what the column treatments of the contract make of it
CallComputeDiff ==
    /\ eng_out = <<>>
    /\ \E remediated_df \in {eng_heap[eng_args.df],
                              RemediateColumns(eng_heap[eng_args.df],
                                               eng_args.contract.columns, 1)} :
          LET Done(outcome) ==
                eng_out' = <<[fn |-> "compute_diff", raised |-> outcome.raised,
                              exc |-> outcome.exc, value |-> outcome.value,
                              remediated_df |-> remediated_df]>>
          IN  Done(compute_diff(eng_heap[eng_args.df], remediated_df, MAX_SAMPLES_DEFAULT))
    /\ UNCHANGED <<eng_heap, eng_args, eng_before>>

SpecEngineInit == EngInit /\ CvParked /\ ColParked /\ DateParked /\ WizParked /\ UpParked

SpecEngineNext ==
    (CallRunValidation \/ CallRunRemediation \/ CallPreviewRemediation
        \/ CallComputeDiff)
    /\ UNCHANGED <<cvVars, colVars, dateVars, wizVars, upVars>>

SpecEngine == SpecEngineInit /\ [][SpecEngineNext]_vars

(***************************************************************************)
(* Specification 5: the wizard.  One session; every action is one input of *)
(* the user on the page the session shows.  last_call is the engine call   *)
(* the last input led to (<<>> when it led to none).                       *)
(***************************************************************************)
\* the files a user uploads, by name, and the table read_file returns
WizardFiles == {"ints.csv", "text.csv"}

read_file(file) ==
    IF file = "ints.csv"
    THEN Table(<<"a">>, RangeIndex(2), [c \in {"a"} |-> <<IntCell(1), IntCell(1)>>])
    ELSE Table(<<"a">>, RangeIndex(2),
               [c \in {"a"} |-> <<StrCell(<<" ", "a">>), StrCell(<<"A">>)>>])

\* the contracts a user uploads, as dict_to_contract returns them
WizardContracts ==
    {Contract("1.0", <<EngineColumn("a", <<>>, <<EngineTest("not_null", "error")>>,
                                    <<"trim_whitespace">>)>>, <<>>, <<>>),
     Contract("1.0", <<[EngineColumn("a", <<>>, <<>>, <<"trim_whitespace">>)
                            EXCEPT !.data_type = "money"]>>, <<>>, <<>>)}

\* the checkboxes of the model on the pages of steps 2 and 3
WizardTests == {"uniqueness"}

WizardRemediations == {"trim_whitespace", "remove_punctuation"}

WizInit ==
    /\ session = initialize_session_state
    /\ last_call = <<>>

\* the script runs that follow a handler which made no engine call
Rerun(s) ==
    LET Show(page) == session' = page.session /\ last_call' = page.call
    IN  \E seed \in HashSeeds : Show(Render(s, seed))

OnPage(step) == ~session.show_privacy_page /\ session.current_step = step

\* app.py, _render_sidebar
ClearSession == Rerun(reset_session_state)

NavStep ==
    \E step \in 1..(session.current_step - 1) :
        Rerun(set_current_step(session, step))

TogglePrivacy ==
    Rerun([session EXCEPT !.show_privacy_page = ~session.show_privacy_page])

\* step_upload.py
ChooseMode ==
    /\ OnPage(1) /\ session.upload_mode = NONE /\ session.dataframe = <<>>
    /\ \E mode \in {"fresh", "contract"} :
          Rerun([session EXCEPT !.upload_mode = mode])

BackToOptions ==
    /\ OnPage(1)
    /\ \/ session.upload_mode = "contract"
       \/ session.upload_mode = "fresh" /\ session.dataframe = <<>>
    /\ Rerun([session EXCEPT !.upload_mode = NONE,
                             !.uploaded_contract =
                                IF session.upload_mode = "contract" THEN <<>> ELSE @])

\* _handle_primary_file and _load_primary_data
UploadPrimaryFile ==
    /\ OnPage(1) /\ session.upload_mode = "fresh" /\ session.dataframe = <<>>
    /\ \E file \in WizardFiles :
          Rerun(IF file = session.file_hash THEN session
                ELSE [reset_from_step_1 EXCEPT !.file_hash = file,
                                               !.dataframe = <<read_file(file)>>])

\* _process_contract_and_data
UploadContractAndData ==
    /\ OnPage(1) /\ session.upload_mode = "contract"
    /\ \E contract \in WizardContracts, file \in WizardFiles :
          Rerun(set_current_step(
                    [session EXCEPT !.file_hash = file,
                                    !.dataframe = <<read_file(file)>>,
                                    !.uploaded_contract = <<contract>>,
                                    !.contract = <<contract>>,
                                    !.contract_source = "uploaded"], 4))

Step1Next ==
    /\ OnPage(1) /\ session.upload_mode # "contract" /\ session.dataframe # <<>>
    /\ Rerun(set_current_step(session, 2))

\* step_contract.py
Step2ToggleTest ==
    /\ OnPage(2) /\ session.dataframe # <<>>
    /\ \E k \in 1..Len(session.contract[1].columns), test_type \in WizardTests :
          /\ Configured(session, k)
          /\ LET tests == session.contract[1].columns[k].tests
                 has_test == \E j \in 1..Len(tests) : tests[j].type = test_type
             IN  Rerun([session EXCEPT !.contract[1].columns[k].tests =
                    IF has_test THEN SelectSeq(tests, LAMBDA t : t.type # test_type)
                    ELSE Append(tests,
                            TestConfig(test_type, "error", NoTestParams, <<>>))])

Step2Back ==
    /\ OnPage(2) /\ session.dataframe # <<>>
    /\ Rerun(set_current_step(session, 1))

Step2Next ==
    /\ OnPage(2) /\ session.dataframe # <<>>
    /\ Rerun(IF validate_contract(session.contract[1]).is_valid
             THEN set_current_step(session, 3) ELSE session)

\* step_cleaning.py
Step3Ready == OnPage(3) /\ session.dataframe # <<>> /\ session.contract # <<>>

Step3ToggleRemediation ==
    /\ Step3Ready
    /\ \E k \in 1..Len(session.contract[1].columns), rem_type \in WizardRemediations :
          /\ Configured(session, k)
          /\ LET rems == session.contract[1].columns[k].remediation
             IN  Rerun([session EXCEPT !.contract[1].columns[k].remediation =
                    IF rem_type \in SeqToSet(rems)
                    THEN SelectSeq(rems, LAMBDA r : r # rem_type)
                    ELSE Append(rems, rem_type)])

Step3ClearAll ==
    /\ Step3Ready
    /\ Rerun([session EXCEPT !.contract[1].columns =
                [k \in 1..Len(session.contract[1].columns) |->
                    IF HasColumn(session.dataframe[1], session.contract[1].columns[k].name)
                       /\ Configured(session, k)
                    THEN [session.contract[1].columns[k] EXCEPT !.remediation = <<>>]
                    ELSE session.contract[1].columns[k]]])

Step3Back == Step3Ready /\ Rerun(set_current_step(session, 2))

\* either of the two "Run Diagnostics & Treatments" buttons
Step3RunDiagnostics == Step3Ready /\ Rerun(set_current_step(session, 4))

\* step_results.py: the page below the results, shown once results exist
Step4Ready ==
    /\ OnPage(4) /\ session.dataframe # <<>> /\ session.contract # <<>>
    /\ session.validation_results # <<>>

has_remediation ==
    \E k \in 1..Len(session.contract[1].columns) :
        session.contract[1].columns[k].remediation # <<>>

\* preview_remediation(df, contract) is called; the page shows the figures
\* it returned or the exception it raised, and the session keeps its values
PreviewRemediation ==
    /\ Step4Ready /\ has_remediation
    /\ last_call' = <<EngineCall("preview_remediation", session.contract[1])>>
    /\ UNCHANGED session

ApplyRemediation ==
    /\ Step4Ready /\ has_remediation /\ session.remediated_dataframe = <<>>
    /\ LET Store(call) ==
                session' =
                    IF call.outcome.raised THEN session
                    ELSE [session EXCEPT
                            !.remediated_dataframe =
                                <<call.heap[call.outcome.value[1].df]>>,
                            !.remediation_diff = <<call.outcome.value[1].diff>>,
                            !.remediation_approved = TRUE]
       IN  /\ last_call' = <<EngineCall("run_remediation", session.contract[1])>>
           /\ Store(run_remediation(<<session.dataframe[1]>>, 1, session.contract[1]))

Step4Back ==
    /\ Step4Ready
    /\ Rerun(set_current_step([session EXCEPT !.validation_results = <<>>], 2))

\* "Continue to Export" calls set_current_step(4): the page stays on the
\* results step, and no handler of the application sets a step above 4, so
\* the export page (step 5) and its buttons are never rendered.
Step4Next == Step4Ready /\ Rerun(set_current_step(session, 4))

SpecWizardInit == WizInit /\ CvParked /\ ColParked /\ DateParked /\ EngParked /\ UpParked

SpecWizardNext ==
    (\/ ClearSession \/ NavStep \/ TogglePrivacy
     \/ ChooseMode \/ BackToOptions \/ UploadPrimaryFile \/ UploadContractAndData
     \/ Step1Next
     \/ Step2ToggleTest \/ Step2Back \/ Step2Next
     \/ Step3ToggleRemediation \/ Step3ClearAll \/ Step3Back \/ Step3RunDiagnostics
     \/ PreviewRemediation \/ ApplyRemediation \/ Step4Back \/ Step4Next)
    /\ UNCHANGED <<cvVars, colVars, dateVars, engVars, upVars>>

SpecWizard == SpecWizardInit /\ [][SpecWizardNext]_vars

(***************************************************************************)
CvErrors == SeqToSet(cv_result[1].errors)

\* Every place of a contract where a failure handler can stand, with the
\* field path validate_contract reports it under.
HandlerSites(c) ==
    {[fh |-> c.columns[k].failure_handling,
      sec |-> "columns", i |-> k - 1, sub |-> "", j |-> -1,
      at |-> "failure_handling"] : k \in 1..Len(c.columns)}
    \cup UNION {{[fh |-> c.columns[k].tests[t].on_fail,
                  sec |-> "columns", i |-> k - 1, sub |-> "tests", j |-> t - 1,
                  at |-> "on_fail"] : t \in 1..Len(c.columns[k].tests)}
                : k \in 1..Len(c.columns)}
    \cup {[fh |-> c.dataset_tests[k].on_fail,
           sec |-> "dataset_tests", i |-> k - 1, sub |-> "", j |-> -1,
           at |-> "on_fail"] : k \in 1..Len(c.dataset_tests)}
    \cup {[fh |-> c.foreign_key_checks[k].on_fail,
           sec |-> "foreign_key_checks", i |-> k - 1, sub |-> "", j |-> -1,
           at |-> "on_fail"] : k \in 1..Len(c.foreign_key_checks)}

SiteField(s, leaf) == Field(s.sec, s.i, s.sub, s.j, s.at \o leaf)

\* C5: a contract in which two columns carry the same name is rejected:
\* is_valid is false and the errors hold one whose field is columns[i].name,
\* i being the index of the later of the two columns.
C5_DuplicateColumnRejected ==
    cv_result # <<>> =>
        \A k1, k2 \in 1..Len(cv_contract.columns) :
            (k1 < k2 /\ cv_contract.columns[k1].name = cv_contract.columns[k2].name)
            => /\ ~cv_result[1].is_valid
               /\ Field("columns", k2 - 1, "", -1, "name") \in CvErrors

\* The duplicate is two columns apart: a, b, a.
C5_Witness ==
    /\ cv_result # <<>>
    /\ Len(cv_contract.columns) = 3
    /\ cv_contract.columns[1].name = "a"
    /\ cv_contract.columns[2].name = "b"
    /\ cv_contract.columns[3].name = "a"
    /\ \A k \in 1..3 : cv_contract.columns[k].data_type = "string"
    /\ cv_result[1].errors = <<Field("columns", 2, "", -1, "name")>>

\* C6: for every failure handler of the contract (column default, column-test
\* on_fail, dataset-test on_fail, foreign-key on_fail) there is an error on
\* its label_column_name field exactly when its action is label_failure and
\* the label name is missing, and an error on its quarantine_export_name
\* field exactly when its action is quarantine_row and that name is missing.
C6_HandlerNameRequirements ==
    cv_result # <<>> =>
        \A s \in HandlerSites(cv_contract) :
            s.fh # <<>> =>
                /\ (SiteField(s, ".label_column_name") \in CvErrors)
                   <=> (s.fh[1].action = "label_failure"
                        /\ Falsy(s.fh[1].label_column_name))
                /\ (SiteField(s, ".quarantine_export_name") \in CvErrors)
                   <=> (s.fh[1].action = "quarantine_row"
                        /\ Falsy(s.fh[1].quarantine_export_name))

\* A dataset test labelling without a label name next to a foreign key check
\* quarantining without an export name: both reported, nothing else.
C6_Witness ==
    /\ cv_result # <<>>
    /\ Len(cv_contract.dataset_tests) = 1
    /\ Len(cv_contract.foreign_key_checks) = 1
    /\ cv_contract.dataset_tests[1].on_fail =
            <<FailureHandling("label_failure", NONE, "bad_rows")>>
    /\ cv_contract.foreign_key_checks[1].on_fail =
            <<FailureHandling("quarantine_row", "err_label", NONE)>>
    /\ cv_result[1].errors =
            <<Field("dataset_tests", 0, "", -1, "on_fail.label_column_name"),
              Field("foreign_key_checks", 0, "", -1, "on_fail.quarantine_export_name")>>

\* C7: whenever validate_contract answers is_valid = true, every column name
\* is non-empty and unique, every data_type is in DATA_TYPES, every failure
\* handler's action (an empty or absent one included) is one of the five
\* FAILURE_ACTIONS, every column-test and dataset-test type is in its
\* enumeration, and every severity is exactly error or warning.
C7_ValidMeansWellFormed ==
    (cv_result # <<>> /\ cv_result[1].is_valid) =>
        LET c == cv_contract IN
        /\ \A k \in 1..Len(c.columns) : ~Falsy(c.columns[k].name)
        /\ \A k1, k2 \in 1..Len(c.columns) :
                k1 # k2 => c.columns[k1].name # c.columns[k2].name
        /\ \A k \in 1..Len(c.columns) : c.columns[k].data_type \in DATA_TYPES
        /\ \A s \in HandlerSites(c) :
                s.fh # <<>> => s.fh[1].action \in FAILURE_ACTIONS
        /\ \A k \in 1..Len(c.columns) : \A t \in 1..Len(c.columns[k].tests) :
                /\ c.columns[k].tests[t].type \in COLUMN_TEST_TYPES
                /\ c.columns[k].tests[t].severity \in {"error", "warning"}
        /\ \A k \in 1..Len(c.dataset_tests) :
                /\ c.dataset_tests[k].type \in DATASET_TEST_TYPES
                /\ c.dataset_tests[k].severity \in {"error", "warning"}

(***************************************************************************)
(* Properties of the column tests (SpecColumn).                            *)
(***************************************************************************)
ColRunIds == 1..Len(col_runs)

\* C8: for every column test and every input column the evidence is capped
\* and deterministic: at most 100 failed row indices and values and at most
\* 10 detail strings, each list holding the first failures in row order
\* (failure k of the run is row failed_indices[k] with value
\* failed_values[k], and detail k describes it), failed_count being the
\* uncapped number of failures; and two runs on the same input return
\* identical lists.
C8_EvidenceCappedAndDeterministic ==
    /\ \A k \in ColRunIds :
        LET r == col_runs[k] IN
        /\ Len(r.failed_indices) = Min(r.failed_count, 100)
        /\ Len(r.failed_values) = Min(r.failed_count, 100)
        /\ Len(r.error_details) = Min(r.failed_count, 10)
        /\ \A i, j \in 1..Len(r.failed_indices) :
              i < j => r.failed_indices[i] < r.failed_indices[j]
        /\ \A i \in 1..Len(r.error_details) :
              /\ r.error_details[i].row = r.failed_indices[i]
              /\ r.error_details[i].value = r.failed_values[i]
    /\ \A k, m \in ColRunIds :
        /\ col_runs[k].failed_indices = col_runs[m].failed_indices
        /\ col_runs[k].failed_values = col_runs[m].failed_values
        /\ col_runs[k].error_details = col_runs[m].error_details

C9_AllInts == \A k \in 1..Len(col_input.series.values) :
                 col_input.series.values[k].t \in {"int", "null"}

\* the row labels of the non-null cells that are out of order against the
\* non-null cell before them
C9_OutOfOrder(less) ==
    LET nn == dropna(col_input.series)
        at == SelectSeq([k \in 1..Len(nn.values) |-> k],
                        LAMBDA k : k > 1 /\ IF less
                                            THEN nn.values[k].n < nn.values[k - 1].n
                                            ELSE nn.values[k].n > nn.values[k - 1].n)
    IN  [k \in 1..Len(at) |-> nn.index[at[k]]]

\* C9: monotonic with direction=ascending passes on [1,2,2,3] and fails on
\* [1,3,2] exactly at index 2; in general it fails exactly at the non-null
\* positions whose value is strictly less than the preceding non-null
\* value, and with direction=descending at those strictly greater.
C9_MonotonicDirections ==
    \A k \in ColRunIds :
        (col_input.test_type = "monotonic" /\ C9_AllInts) =>
            LET r == col_runs[k]
                ascending  == C9_OutOfOrder(TRUE)
                descending == C9_OutOfOrder(FALSE)
            IN  /\ col_input.params.direction = "ascending" =>
                    r.failed_indices = ascending /\ r.passed = (ascending = <<>>)
                /\ col_input.params.direction = "descending" =>
                    r.failed_indices = descending /\ r.passed = (descending = <<>>)
                /\ (col_input.params.direction = "ascending"
                    /\ col_input.series.values =
                         <<IntCell(1), IntCell(2), IntCell(2), IntCell(3)>>)
                    => r.passed
                /\ (col_input.params.direction = "ascending"
                    /\ col_input.series.values = <<IntCell(1), IntCell(3), IntCell(2)>>)
                    => r.failed_indices = <<2>>

(***************************************************************************)
(* Properties of date parsing (SpecDate).                                  *)
(***************************************************************************)
C10_Value == Strip(dt_input.value)

\* the Excel serial reading of the value in the 1900 date system, <<>>
\* when it is not tried or gives no date
C10_BySerial ==
    LET serial == ParseNumber(C10_Value)
    IN  IF dt_input.excel_serial_enabled /\ serial.ok /\ ~serial.nan
           /\ 1 <= serial.value /\ serial.value <= 2958465
        THEN parse_excel_serial_date(serial.value, "1900")
        ELSE <<>>

\* the positions of the accepted formats that parse the value
C10_Parsing ==
    {k \in 1..Len(dt_input.accepted_formats) :
        parse_date_with_format(C10_Value, dt_input.accepted_formats[k]) # <<>>}

C10_First == CHOOSE k \in C10_Parsing : \A m \in C10_Parsing : k <= m

\* C10: robust date parsing resolves a value in a fixed order: with
\* excel_serial_enabled a numeric value in [1, 2958465] is first read as an
\* Excel serial date (day 0 is 1899-12-30, or 1904-01-01 in the 1904 date
\* system); otherwise, or when that gives no date, the accepted formats are
\* tried in list order and the first that parses is returned; date_rule
\* fails the value only when no step parses it.
C10_RobustParsingOrder ==
    dt_out # <<>> =>
        LET o == dt_out[1] IN
        /\ o.call = "try_parse_date_robust" =>
            /\ C10_BySerial # <<>> =>
                  o.parsed = C10_BySerial /\ o.matched = "EXCEL_SERIAL"
            /\ (C10_BySerial = <<>> /\ C10_Parsing # {}) =>
                  /\ o.matched = dt_input.accepted_formats[C10_First]
                  /\ o.parsed = parse_date_with_format(C10_Value,
                                    dt_input.accepted_formats[C10_First])
            /\ (C10_BySerial = <<>> /\ C10_Parsing = {}) =>
                  o.parsed = <<>> /\ o.matched = NONE
        /\ o.call = "test_date_rule" =>
            (o.failed <=> (C10_BySerial = <<>> /\ C10_Parsing = {}))
        /\ (o.call = "1900" /\ o.parsed # <<>>) =>
            o.parsed[1] = 693594 + ParseNumber(C10_Value).value
        /\ (o.call = "1904" /\ o.parsed # <<>>) =>
            o.parsed[1] = 695056 + ParseNumber(C10_Value).value

\* 010125 is serial 10125 and also January 1st 2025 in MMDDYY: with Excel
\* serials enabled the serial reading is returned, not the format's.
C10_Witness ==
    /\ dt_out # <<>>
    /\ dt_out[1].call = "try_parse_date_robust"
    /\ dt_input.excel_serial_enabled
    /\ dt_input.value = <<"0", "1", "0", "1", "2", "5">>
    /\ dt_input.accepted_formats = <<"YYYYMMDD", "MMDDYY">>
    /\ dt_out[1].matched = "EXCEL_SERIAL"
    /\ dt_out[1].parsed = <<693594 + 10125>>
    /\ parse_date_with_format(dt_input.value, "MMDDYY") = <<Ordinal(2025, 1, 1)>>



EngCalled(fn) == eng_out # <<>> /\ eng_out[1].fn = fn

\* the column names a dataset test refers to through its parameters
DatasetTestReferences(test) ==
    SeqToSet(test.params.key_columns)
    \cup (IF test.params.subset = <<>> THEN {} ELSE SeqToSet(test.params.subset[1]))
    \cup (IF test.params.column = NONE THEN {} ELSE {test.params.column})

\* C2: when a call of run_validation, run_remediation or preview_remediation
\* has ended, by returning or by raising, every DataFrame object that
\* existed before the call (the table passed in, the reference table) holds
\* the columns, row labels and values it held before, and the contract is
\* the contract passed in: the call wrote only to objects it created.
C2_InputsUnchanged ==
    eng_out # <<>> =>
        /\ Len(eng_heap) >= Len(eng_before.heap)
        /\ \A r \in 1..Len(eng_before.heap) : eng_heap[r] = eng_before.heap[r]
        /\ eng_args.contract = eng_before.contract

\* run_validation has returned and its working copy differs from the table
\* passed in: a normalization changed a cell
C2_Witness ==
    /\ EngCalled("run_validation")
    /\ ~eng_out[1].raised
    /\ \E r \in (Len(eng_before.heap) + 1)..Len(eng_heap) :
          /\ eng_heap[r].columns = eng_before.heap[eng_args.df].columns
          /\ eng_heap[r].data # eng_before.heap[eng_args.df].data

\* C3: for a contract that passes validate_contract, run_validation returns
\* a ValidationResult and does not raise; every dataset test has a result;
\* a column definition or foreign-key check naming a column absent from the
\* table adds a blocking error, and a dataset test whose subset, key_columns
\* or column names an absent column is reported as failed.
C3_ValidationAlwaysReturns ==
    (EngCalled("run_validation") /\ validate_contract(eng_args.contract).is_valid) =>
        /\ ~eng_out[1].raised
        /\ LET result == eng_out[1].value[1]
               contract == eng_args.contract
               table == eng_before.heap[eng_args.df]
               Absent(name) == ~HasColumn(table, name)
           IN  /\ Len(result.dataset_test_results) = Len(contract.dataset_tests)
               /\ \A k \in 1..Len(contract.columns) :
                     Absent(contract.columns[k].name) =>
                        \E b \in SeqToSet(result.blocking_errors) :
                            b.name = contract.columns[k].name
               /\ \A k \in 1..Len(contract.foreign_key_checks) :
                     Absent(contract.foreign_key_checks[k].dataset_column) =>
                        \E b \in SeqToSet(result.blocking_errors) :
                            b.name = contract.foreign_key_checks[k].name
               /\ \A k \in 1..Len(contract.dataset_tests) :
                     (\E name \in DatasetTestReferences(contract.dataset_tests[k]) :
                            Absent(name)) =>
                        ~result.dataset_test_results[k].passed

\* C4: for a contract that passes validate_contract, run_remediation
\* returns the remediated table and one RemediationDiff; every ColumnDiff of
\* it carries the changed count, the change rate, at most the sample limit
\* of cell changes, and the treatments applied to the column.
C4_RemediationReturnsDiff ==
    (EngCalled("run_remediation") /\ validate_contract(eng_args.contract).is_valid) =>
        /\ ~eng_out[1].raised
        /\ LET value == eng_out[1].value[1]
               diffs == value.diff.column_diffs
           IN  /\ value.df \in 1..Len(eng_heap)
               /\ \A k \in 1..Len(diffs) :
                     /\ {"changed_count", "change_rate_percent", "sample_changes",
                         "treatments_applied"} \subseteq DOMAIN diffs[k]
                     /\ Len(diffs[k].sample_changes) <= SAMPLE_LIMIT
                     /\ Len(diffs[k].sample_changes) <= diffs[k].changed_count


\* C1: in the wizard, whatever the sequence of navigation, contract edits,
\* uploads and button presses, every call of run_validation,
\* run_remediation or preview_remediation is made with a contract that
\* validate_contract accepts (is_valid = true).
C1_InvalidContractNeverExecuted ==
    \A k \in 1..Len(last_call) : validate_contract(last_call[k].contract).is_valid

(***************************************************************************)
(* Specification 6: one call of run_dataset_test on a table in memory, or  *)
(* of run_validation with a contract of one dataset test.  The variables   *)
(* are those of specification 4; eng_args.contract holds the test.         *)
(***************************************************************************)
MaxOutlierRows == 4

\* two columns a and b of numbers, b with a text in places
RuleTables ==
    UNION {{Table(<<"a", "b">>, RangeIndex(n),
                  [c \in {"a", "b"} |-> IF c = "a" THEN as ELSE bs]) :
                as \in CellRows({IntCell(1), IntCell(2), NullCell}, n),
                bs \in CellRows({IntCell(1), IntCell(2), NullCell, StrCell(<<"A">>)}, n)} :
                n \in 0..MaxTableRows}

\* one column a of numbers, with a text in places
OutlierTables ==
    UNION {{Table(<<"a">>, RangeIndex(n), [c \in {"a"} |-> cells]) :
                cells \in CellRows({IntCell(1), IntCell(9), NullCell, StrCell(<<"A">>)}, n)} :
                n \in 0..MaxOutlierRows}

\* _build_expression_string: the parts of the rule builder, each a
\* field, an operator and a field, joined by " AND "
RECURSIVE _build_expression_string(_)
_build_expression_string(expression_parts) ==
    IF expression_parts = <<>> THEN <<>>
    ELSE LET part == Head(expression_parts)
             text == part.field1 \o <<" ">> \o part.operator \o <<" ">> \o part.field2
             rest == _build_expression_string(Tail(expression_parts))
         IN  IF part.field1 = <<>> \/ part.operator = <<>> \/ part.field2 = <<>>
             THEN rest
             ELSE IF rest = <<>> THEN text
             ELSE text \o <<" ", "A", "N", "D", " ">> \o rest

ExpressionPart(field1, operator, field2) ==
    [field1 |-> field1, operator |-> operator, field2 |-> field2]

\* the rules of two parts a user composes on the contract page
BuiltExpressions ==
    {_build_expression_string(<<ExpressionPart(<<"a">>, <<"<", "=">>, <<"b">>),
                                ExpressionPart(<<"b">>, <<">">>, <<"a">>)>>),
     _build_expression_string(<<ExpressionPart(<<"b">>, <<"<", "=">>, <<"a">>),
                                ExpressionPart(<<"a">>, <<">">>, <<"b">>)>>),
     _build_expression_string(<<ExpressionPart(<<"a">>, <<"=", "=">>, <<"b">>),
                                ExpressionPart(<<"a">>, <<"!", "=">>, <<"b">>)>>)}

RuleExpressions ==
    {<<>>, <<"a", " ", "b">>,
     <<"a", " ", "<", "=", " ", "b">>, <<"a", " ", "!", "=", " ", "b">>,
     <<"a", "<", "2">>}
    \cup BuiltExpressions

RuleGates == {<<>>, <<"a">>, <<"a", "b">>, <<"b", "ghost">>}

CrossFieldRules ==
    {DatasetTest("cross_field_rule", "error",
                 DatasetParams(<<>>, gate, <<>>, NONE, expression), <<>>) :
        gate \in RuleGates, expression \in RuleExpressions}

OutlierTests ==
    {DatasetTest(type, severity, [NoDatasetParams EXCEPT !.column = column], <<>>) :
        type \in {"outliers_iqr", "outliers_zscore"},
        severity \in {"error", "warning"}, column \in {"a", "ghost", NONE}}
    \cup {DatasetTest("outliers_iqr", severity,
            [NoDatasetParams EXCEPT !.column = "a", !.multiplier = <<[num |-> 1, den |-> 2]>>],
            <<>>) : severity \in {"error", "warning"}}
    \cup {DatasetTest("outliers_zscore", severity,
            [NoDatasetParams EXCEPT !.column = "a", !.threshold = <<[num |-> 1, den |-> 1]>>],
            <<>>) : severity \in {"error", "warning"}}

\* the table with the dataset tests that read it
DatasetInputs ==
    (RuleTables \X CrossFieldRules) \cup (OutlierTables \X OutlierTests)

DatasetInit ==
    /\ \E input \in DatasetInputs, seed \in HashSeeds :
          /\ eng_heap = <<input[1]>>
          /\ eng_args = [df |-> 1, fk_dataframe |-> 0,
                         contract |-> Contract("1.0", <<EngineColumn("a", <<>>, <<>>, <<>>)>>,
                                               <<input[2]>>, <<>>),
                         seed |-> seed]
    /\ eng_before = [heap |-> eng_heap, contract |-> eng_args.contract]
    /\ eng_out = <<>>

CallRunDatasetTest ==
    /\ eng_out = <<>>
    /\ LET Done(test) ==
            eng_out' = <<EngOut("run_dataset_test",
                            run_dataset_test(test.type, eng_heap[eng_args.df],
                                test.severity, test.params, eng_args.seed))>>
       IN  Done(eng_args.contract.dataset_tests[1])
    /\ UNCHANGED <<eng_heap, eng_args, eng_before>>

SpecDatasetInit == DatasetInit /\ CvParked /\ ColParked /\ DateParked /\ WizParked /\ UpParked

SpecDatasetNext ==
    (CallRunDatasetTest \/ CallRunValidation)
    /\ UNCHANGED <<cvVars, colVars, dateVars, wizVars, upVars>>

SpecDataset == SpecDatasetInit /\ [][SpecDatasetNext]_vars

(***************************************************************************)
(* Properties of the dataset tests.                                        *)
(***************************************************************************)
\* the test of the contract and the table it is run on
TheDatasetTest == eng_args.contract.dataset_tests[1]

TheTable == eng_before.heap[eng_args.df]

\* run_dataset_test has returned the result of a cross-field rule that was
\* evaluated: the expression is not empty and evaluating it did not raise
CrossFieldEvaluated ==
    /\ eng_out # <<>>
    /\ eng_out[1].fn = "run_dataset_test"
    /\ TheDatasetTest.type = "cross_field_rule"
    /\ eng_out[1].value[1].message
         \notin {"No expression specified", "Error evaluating expression"}

\* row k of the table has a null in a gate column
GatedOut(k) ==
    \E g \in SeqToSet(TheDatasetTest.params.all_not_null) :
        HasColumn(TheTable, g) /\ IsNull(TheTable.data[g][k])

\* the expressions of the model that are one comparison
SingleComparisons ==
    {<<"a", " ", "<", "=", " ", "b">>, <<"a", " ", "!", "=", " ", "b">>, <<"a", "<", "2">>}

\* what the single comparisons say of a row with numbers x in a and y in b
ExpressionHolds(expression, x, y) ==
    CASE expression = <<"a", " ", "<", "=", " ", "b">> -> x <= y
      [] expression = <<"a", " ", "!", "=", " ", "b">> -> x # y
      [] expression = <<"a", "<", "2">> -> x < 2

\* C11: a row with a null in a gate column of a cross-field rule is not in
\* affected_rows and is counted neither in rows_checked nor in rows_failed;
\* a row that passes the gate fails exactly when the expression, a single
\* comparison, is false for it.
C11_GatedRowsExcluded ==
    CrossFieldEvaluated =>
        LET result == eng_out[1].value[1]
            passing == {k \in 1..NumRows(TheTable) : ~GatedOut(k)}
            affected == SeqToSet(result.affected_rows)
        IN  /\ \A k \in 1..NumRows(TheTable) :
                  GatedOut(k) => TheTable.index[k] \notin affected
            /\ result.details.rows_checked = <<Cardinality(passing)>>
            /\ passing # {} => result.details.rows_failed = <<Cardinality(affected)>>
            /\ passing = {} => result.details.rows_failed = <<>> /\ result.passed
            /\ result.passed <=> affected = {}
            /\ \A k \in passing :
                  (/\ TheDatasetTest.params.expression \in SingleComparisons
                   /\ TheTable.data["a"][k].t = "int" /\ TheTable.data["b"][k].t = "int")
                  => (TheTable.index[k] \in affected
                      <=> ~ExpressionHolds(TheDatasetTest.params.expression,
                                           TheTable.data["a"][k].n, TheTable.data["b"][k].n))

\* a rule gated on a, on a table whose first row has no a and a number in
\* b and whose second row fails the expression: only the second row is
\* checked and reported
C11_Witness ==
    /\ CrossFieldEvaluated
    /\ TheDatasetTest.params.all_not_null = <<"a">>
    /\ TheDatasetTest.params.expression = <<"a", " ", "<", "=", " ", "b">>
    /\ NumRows(TheTable) = 2
    /\ IsNull(TheTable.data["a"][1]) /\ TheTable.data["b"][1].t = "int"
    /\ eng_out[1].value[1].affected_rows = <<1>>
    /\ eng_out[1].value[1].details = [rows_checked |-> <<1>>, rows_failed |-> <<1>>]


\* a call on an outlier test has ended
OutlierTestRan ==
    /\ eng_out # <<>>
    /\ TheDatasetTest.type \in {"outliers_iqr", "outliers_zscore"}

\* C12: an outlier test is informational on every return path and whatever
\* severity is configured: its result has severity warning and has passed,
\* and run_validation reports the dataset valid with no error counted.
C12_OutliersAlwaysInformational ==
    OutlierTestRan =>
        /\ ~eng_out[1].raised
        /\ eng_out[1].fn = "run_dataset_test" =>
              eng_out[1].value[1].severity = "warning" /\ eng_out[1].value[1].passed
        /\ eng_out[1].fn = "run_validation" =>
              /\ eng_out[1].value[1].is_valid
              /\ eng_out[1].value[1].summary.total_errors = 0
              /\ \A k \in 1..Len(eng_out[1].value[1].dataset_test_results) :
                    eng_out[1].value[1].dataset_test_results[k].severity = "warning"


(***************************************************************************)
(* Properties of the foreign-key check.                                    *)
(***************************************************************************)
\* run_validation has returned the result of the foreign-key check of the
\* contract, made against the reference table
ForeignKeyChecked ==
    /\ eng_out # <<>>
    /\ eng_out[1].fn = "run_validation"
    /\ ~eng_out[1].raised
    /\ eng_args.fk_dataframe # 0
    /\ eng_out[1].value[1].fk_check_results # <<>>

\* the value the check compares for cell x: the cell as the column's
\* normalization leaves it, normalized by the check's function
ComparedValue(x, col_config) ==
    IF col_config.normalization = <<>> THEN x
    ELSE LET Again(y) ==
                IF IsNull(y) THEN y
                ELSE normalize(y, col_config.normalization[1].trim_whitespace,
                               col_config.normalization[1].case,
                               col_config.normalization[1].null_tokens)
         IN  Again(NormalizeCell(x, col_config.normalization[1]))

\* the reference value of cell y of the reference file
ReferenceValue(y, col_config) ==
    IF col_config.normalization = <<>> \/ IsNull(y) THEN y
    ELSE normalize(y, col_config.normalization[1].trim_whitespace,
                   col_config.normalization[1].case,
                   col_config.normalization[1].null_tokens)

\* C13: a dataset row is reported missing exactly when its normalized value
\* is not null and not among the normalized non-null reference values, or
\* is null while allow_nulls is false; missing_count is the number of such
\* rows and the check has passed exactly when it is 0.
C13_MissingRowsExact ==
    ForeignKeyChecked =>
        LET fk_check == eng_args.contract.foreign_key_checks[1]
            result == eng_out[1].value[1].fk_check_results[1]
            col_config == eng_args.contract.columns[1]
            values == TheTable.data[fk_check.dataset_column]
            reference == eng_before.heap[eng_args.fk_dataframe].data[fk_check.fk_column]
            references == {ReferenceValue(reference[k], col_config) :
                              k \in 1..Len(reference)} \ {NullCell}
            missing == {k \in 1..Len(values) :
                          \/ /\ ~IsNull(ComparedValue(values[k], col_config))
                             /\ ComparedValue(values[k], col_config) \notin references
                          \/ /\ IsNull(ComparedValue(values[k], col_config))
                             /\ ~fk_check.allow_nulls}
        IN  /\ SeqToSet(result.missing_row_indices) = {TheTable.index[k] : k \in missing}
            /\ Len(result.missing_row_indices) = Cardinality(missing)
            /\ result.missing_count = Cardinality(missing)
            /\ result.passed <=> Cardinality(missing) = 0

\* a table with a null and a value the reference file has not: with
\* allow_nulls the null is not reported and the other row is
C13_Witness ==
    /\ ForeignKeyChecked
    /\ eng_args.contract.foreign_key_checks[1].allow_nulls
    /\ NumRows(TheTable) = 2
    /\ IsNull(TheTable.data["a"][1])
    /\ eng_out[1].value[1].fk_check_results[1].missing_row_indices = <<1>>
    /\ eng_out[1].value[1].fk_check_results[1].missing_count = 1


(***************************************************************************)
(* Properties of date_coerce.                                              *)
(***************************************************************************)
\* date_coerce has been applied to the value, which is a valid date written
\* in the target format
CoercedConforming ==
    /\ dt_out # <<>>
    /\ dt_out[1].call = "transform_date_coerce"
    /\ LET Written(parsed) ==
            /\ parsed # <<>>
            /\ format_date(parsed[1], dt_out[1].params.target_format,
                           dt_out[1].year_padded) = dt_input.value
       IN  Written(strptime(dt_input.value,
                            human_format_to_strftime(dt_out[1].params.target_format)))

\* the formats date_coerce tries
CoerceFormats ==
    IF dt_out[1].params.accepted_input_formats = <<>> THEN DATE_COERCE_DEFAULT_FORMATS
    ELSE dt_out[1].params.accepted_input_formats[1]

\* the value is read with the target format: it is not read as an Excel
\* serial number, the target format is accepted, and no format listed
\* before it parses the value
ReadWithTargetFormat ==
    /\ ~(/\ dt_out[1].params.excel_serial_enabled
         /\ ParseNumber(dt_input.value).ok
         /\ ~ParseNumber(dt_input.value).nan
         /\ 1 <= ParseNumber(dt_input.value).value
         /\ ParseNumber(dt_input.value).value <= EXCEL_SERIAL_MAX)
    /\ \E k \in 1..Len(CoerceFormats) :
          /\ CoerceFormats[k] = dt_out[1].params.target_format
          /\ \A m \in 1..(k - 1) :
                parse_date_with_format(dt_input.value, CoerceFormats[m]) = <<>>

\* C14 as stated: for every target format, list of accepted formats and
\* Excel-serial setting, date_coerce returns a value that is already a
\* valid date in the target format unchanged, and applying it twice gives
\* what applying it once gives.
C14_CoerceIdempotentAlways ==
    CoercedConforming =>
        /\ dt_out[1].once = <<StrCell(dt_input.value)>>
        /\ dt_out[1].twice = dt_out[1].once

\* C14, amended: date_coerce returns a value that is already a valid date
\* in the target format unchanged, and twice gives what once gives, when
\* the value is read with the target format: it is not taken for an Excel
\* serial number and no accepted format listed before the target format
\* parses it.
C14_CoerceIdempotentWhenReadAsTarget ==
    (CoercedConforming /\ ReadWithTargetFormat) =>
        /\ dt_out[1].once = <<StrCell(dt_input.value)>>
        /\ dt_out[1].twice = dt_out[1].once

\* 13/01/2025 coerced to DD/MM/YYYY with MM/DD/YYYY listed first, which
\* does not parse it
C14_Witness ==
    /\ CoercedConforming
    /\ ReadWithTargetFormat
    /\ dt_out[1].params.target_format = "DD/MM/YYYY"
    /\ dt_out[1].params.accepted_input_formats = <<<<"MM/DD/YYYY", "DD/MM/YYYY">>>>
    /\ dt_out[1].once = <<StrCell(<<"1", "3", "/", "0", "1", "/", "2", "0", "2", "5">>)>>


(***************************************************************************)
(* Properties of compute_diff.                                             *)
(***************************************************************************)
\* C15: compute_diff of a table and itself reports no changed row, cell or
\* column, nulls or not; in any diff a cell counts as changed only when
\* exactly one side is null or both are not null and unequal, and a cell
\* null on both sides is never counted.
C15_DiffCountsRealChangesOnly ==
    (eng_out # <<>> /\ eng_out[1].fn = "compute_diff") =>
        LET diff == eng_out[1].value[1]
            remediated_df == eng_out[1].remediated_df
            changed(c) ==
                {k \in 1..NumRows(TheTable) :
                    LET o == TheTable.data[c][k]
                        n == remediated_df.data[c][k]
                    IN  \/ IsNull(o) # IsNull(n)
                        \/ ~IsNull(o) /\ ~IsNull(n) /\ o # n}
        IN  /\ ~eng_out[1].raised
            /\ remediated_df = TheTable =>
                  /\ diff.rows_changed = 0
                  /\ diff.cells_changed = 0
                  /\ diff.columns_affected = <<>>
            /\ diff.cells_changed =
                  Sum([k \in 1..Len(TheTable.columns) |->
                          Cardinality(changed(TheTable.columns[k]))])
            /\ SeqToSet(diff.columns_affected) =
                  {c \in SeqToSet(TheTable.columns) : changed(c) # {}}


(***************************************************************************)
(* ui/step_export.py: the download buttons of the export page.  A file is  *)
(* its name after base_name, its extension, and the tables written into    *)
(* it; labeled_df is add_error_columns(df, validation_result).             *)
(***************************************************************************)
ExportFile(name, ext, tables) == [name |-> name, ext |-> ext, tables |-> tables]

DownloadButton(label, files) == [label |-> label, files |-> files]

\* export_dataframe: the extension of the output format
FormatExt(output_format) == IF output_format = "CSV" THEN "csv" ELSE "xlsx"

IsLabelFailure(fh) == fh # <<>> /\ fh[1].action = "label_failure"

_has_label_failure_action(contract) ==
    \/ \E k \in 1..Len(contract.columns) :
          \/ IsLabelFailure(contract.columns[k].failure_handling)
          \/ \E j \in 1..Len(contract.columns[k].tests) :
                IsLabelFailure(contract.columns[k].tests[j].on_fail)
    \/ \E k \in 1..Len(contract.dataset_tests) :
          IsLabelFailure(contract.dataset_tests[k].on_fail)
    \/ \E k \in 1..Len(contract.foreign_key_checks) :
          IsLabelFailure(contract.foreign_key_checks[k].on_fail)

\* the members of the zip, in the order they are written
_create_export_zip(labeled_df, remediated_df, format_ext, xlsx_multi_sheet, include_labeled) ==
    (IF format_ext = "xlsx" /\ xlsx_multi_sheet /\ remediated_df # <<>> /\ include_labeled
     THEN <<ExportFile("_data", "xlsx", <<remediated_df[1], labeled_df>>)>>
     ELSE (IF remediated_df # <<>>
           THEN <<ExportFile("_cleaned", format_ext, <<remediated_df[1]>>)>>
           ELSE <<>>)
          \o (IF include_labeled
              THEN <<ExportFile("_labeled", format_ext, <<labeled_df>>)>>
              ELSE <<>>))
    \o <<ExportFile("_report", "html", <<>>), ExportFile("_contract", "yaml", <<>>)>>

_render_zip_download(labeled_df, contract, remediated_df, format_ext, xlsx_multi_sheet) ==
    <<DownloadButton("Download Complete Package (.zip)",
                     _create_export_zip(labeled_df, remediated_df, format_ext,
                                        xlsx_multi_sheet,
                                        _has_label_failure_action(contract)))>>

_render_data_export(labeled_df, remediated_df, format_ext) ==
    <<DownloadButton("Labeled Data",
                     <<ExportFile("_labeled", format_ext, <<labeled_df>>)>>)>>
    \o (IF remediated_df # <<>>
        THEN <<DownloadButton("Cleaned Data",
                              <<ExportFile("_cleaned", format_ext, <<remediated_df[1]>>)>>)>>
        ELSE <<>>)

_render_report_export(cells_changed) ==
    <<DownloadButton(IF cells_changed > 0
                     THEN "Data Quality Report with Cleansing Summary (HTML)"
                     ELSE "Data Quality Report (HTML)",
                     <<ExportFile("_report", "html", <<>>)>>),
      DownloadButton("Validation Rules Contract (YAML)",
                     <<ExportFile("_contract", "yaml", <<>>)>>)>>

ExportPage(error, buttons) == [error |-> error, buttons |-> buttons]

ExportDownloads(labeled_df, contract, remediated_df, cells_changed, format_ext, xlsx_multi_sheet) ==
    _render_zip_download(labeled_df, contract, remediated_df, format_ext, xlsx_multi_sheet)
    \o _render_data_export(labeled_df, remediated_df, format_ext)
    \o _render_report_export(cells_changed)

\* dataframe, contract, validation_results and remediated_dataframe are the
\* session's values (<<>> is None), cells_changed the figure of the session's
\* remediation_diff (0 without one), output_format and xlsx_multi_sheet the
\* widgets of the page.  The result is the error box shown, if any, and the
\* download buttons in page order; the checkbox exists for xlsx only.
render_step_export(dataframe, contract, validation_results, remediated_dataframe, cells_changed, output_format, xlsx_multi_sheet) ==
    IF dataframe = <<>> \/ contract = <<>>
    THEN ExportPage("Missing data or contract. Please complete previous steps.", <<>>)
    ELSE IF validation_results = <<>>
    THEN ExportPage("No validation results. Please run validation first.", <<>>)
    ELSE ExportPage(NONE,
            ExportDownloads(add_error_columns(dataframe[1], validation_results[1]),
                            contract[1], remediated_dataframe, cells_changed,
                            FormatExt(output_format),
                            FormatExt(output_format) = "xlsx" /\ xlsx_multi_sheet))

(***************************************************************************)
(* Specification 7: run_validation on a table and a contract, followed by  *)
(* apply_failure_handling, add_error_columns or render_step_export on the  *)
(* same table with the ValidationResult returned.  The variables are those *)
(* of specification 4; after the second call eng_out holds its result and  *)
(* the ValidationResult it was given.                                      *)
(***************************************************************************)
\* two columns a and b, of up to MaxTableRows rows, and one of LongRows rows
\* with nothing in a
FailureTables ==
    UNION {{Table(<<"a", "b">>, RangeIndex(n),
                  [c \in {"a", "b"} |-> IF c = "a" THEN as ELSE bs]) :
                as \in CellRows(PairCells, n), bs \in CellRows(PairCells, n)} :
                n \in 0..MaxTableRows}
    \cup {Table(<<"a", "b">>, RangeIndex(LongRows),
                [c \in {"a", "b"} |->
                    [k \in 1..LongRows |-> IF c = "a" THEN NullCell ELSE StrCell(<<"A">>)]])}

FailureOverrides ==
    {<<>>} \cup {<<FailureHandling(action, NONE, NONE)>> : action \in FAILURE_ACTIONS}

\* column a with one test, with or without an on_fail of its own
FailureColumnsA ==
    {ColumnConfig("a", "string", <<FailureHandling(action, NONE, NONE)>>,
                  <<TestConfig(type, severity, NoTestParams, on_fail)>>, <<>>) :
        action \in {"strict_fail", "label_failure", "drop_row"},
        type \in {"not_null", "uniqueness"}, severity \in {"error", "warning"},
        on_fail \in FailureOverrides}

\* column b, whose nulls are quarantined under an export name
FailureColumnB ==
    ColumnConfig("b", "string", <<FailureHandling("quarantine_row", NONE, "bucket")>>,
                 <<TestConfig("not_null", "error", NoTestParams, <<>>)>>, <<>>)

FailureContracts ==
    {Contract("1.0", <<a>>, <<>>, <<>>) : a \in FailureColumnsA}
    \cup {Contract("1.0", <<a, FailureColumnB>>, <<>>, <<>>) : a \in FailureColumnsA}

FailureInit ==
    /\ \E t \in FailureTables, contract \in FailureContracts, seed \in HashSeeds :
          /\ eng_heap = <<t>>
          /\ eng_args = [df |-> 1, fk_dataframe |-> 0, contract |-> contract,
                         seed |-> seed]
    /\ eng_before = [heap |-> eng_heap, contract |-> eng_args.contract]
    /\ eng_out = <<>>

\* run_validation has returned and nothing was called since
Validated ==
    /\ eng_out # <<>>
    /\ eng_out[1].fn = "run_validation"
    /\ ~eng_out[1].raised

CallApplyFailureHandling ==
    /\ Validated
    /\ LET Done(validation_result) ==
            eng_out' = <<[fn |-> "apply_failure_handling", raised |-> FALSE, exc |-> "",
                          value |-> <<apply_failure_handling(eng_heap[eng_args.df],
                                          eng_args.contract, validation_result)>>,
                          validation_result |-> validation_result]>>
       IN  Done(eng_out[1].value[1])
    /\ UNCHANGED <<eng_heap, eng_args, eng_before>>

CallAddErrorColumns ==
    /\ Validated
    /\ LET Done(validation_result) ==
            eng_out' = <<[fn |-> "add_error_columns", raised |-> FALSE, exc |-> "",
                          value |-> <<add_error_columns(eng_heap[eng_args.df],
                                                        validation_result)>>,
                          validation_result |-> validation_result]>>
       IN  Done(eng_out[1].value[1])
    /\ UNCHANGED <<eng_heap, eng_args, eng_before>>

\* the export page on a session holding the table, the contract and, once
\* run_validation has returned, its result; the contracts here declare no
\* remediation, so the session holds no remediated table and no diff
CallRenderStepExport ==
    /\ eng_out = <<>> \/ Validated
    /\ \E output_format \in {"CSV", "Excel (.xlsx)"}, xlsx_multi_sheet \in BOOLEAN :
          LET Done(validation_results) ==
                eng_out' = <<[fn |-> "render_step_export", raised |-> FALSE, exc |-> "",
                              value |-> <<render_step_export(
                                            <<eng_heap[eng_args.df]>>,
                                            <<eng_args.contract>>, validation_results,
                                            <<>>, 0, output_format, xlsx_multi_sheet)>>,
                              validation_result |-> validation_results]>>
          IN  Done(IF eng_out = <<>> THEN <<>> ELSE <<eng_out[1].value[1]>>)
    /\ UNCHANGED <<eng_heap, eng_args, eng_before>>

SpecFailureInit == FailureInit /\ CvParked /\ ColParked /\ DateParked /\ WizParked /\ UpParked

SpecFailureNext ==
    (\/ CallRunValidation \/ CallApplyFailureHandling \/ CallAddErrorColumns
     \/ CallRenderStepExport)
    /\ UNCHANGED <<cvVars, colVars, dateVars, wizVars, upVars>>

SpecFailure == SpecFailureInit /\ [][SpecFailureNext]_vars

(***************************************************************************)
(* Properties of failure handling.                                         *)
(***************************************************************************)
\* the action the contract resolves for a test of a column: the on_fail of
\* the test when it has one, else the action of the column
ResolvedAction(col_config, test) ==
    IF test.on_fail # <<>> THEN test.on_fail[1].action
    ELSE col_config.failure_handling[1].action

\* row k of the table fails the test of the column
RowFails(col_config, test, k) ==
    LET values == TheTable.data[col_config.name]
    IN  CASE test.type = "not_null" -> IsNull(values[k])
          [] test.type = "uniqueness" ->
                /\ ~IsNull(values[k])
                /\ \E m \in 1..Len(values) : m # k /\ values[m] = values[k]

\* the rows of the table that fail a test of a column config of the
\* contract with one of the severities and a resolved action among actions
FailingRows(severities, actions) ==
    {k \in 1..NumRows(TheTable) :
        \E c \in 1..Len(eng_args.contract.columns) :
            \E j \in 1..Len(eng_args.contract.columns[c].tests) :
                LET col_config == eng_args.contract.columns[c]
                    test == col_config.tests[j]
                IN  /\ test.severity \in severities
                    /\ ResolvedAction(col_config, test) \in actions
                    /\ RowFails(col_config, test, k)}

FailureHandled == eng_out # <<>> /\ eng_out[1].fn = "apply_failure_handling"

\* C16: after apply_failure_handling on the result of run_validation, no
\* row that failed an error-severity column test with resolved action
\* drop_row or quarantine_row is in the cleaned output, however many rows
\* fail.
C16_FailingRowsRemoved ==
    FailureHandled =>
        \A k \in FailingRows({"error"}, {"drop_row", "quarantine_row"}) :
            TheTable.index[k] \notin SeqToSet(eng_out[1].value[1].clean_df.index)


\* the cell errors apply_failure_handling or add_error_columns was given
GivenErrors == eng_out[1].validation_result.cell_errors

\* the row labels the given cell errors target with an action: the rows
\* with an error of a test whose resolved action it is
Targeted(action) ==
    {GivenErrors[e].row_index :
        e \in {k \in 1..Len(GivenErrors) :
                \E c \in 1..Len(eng_args.contract.columns) :
                    \E j \in 1..Len(eng_args.contract.columns[c].tests) :
                        LET col_config == eng_args.contract.columns[c]
                        IN  /\ col_config.name = GivenErrors[k].column_name
                            /\ col_config.tests[j].type = GivenErrors[k].test_type
                            /\ ResolvedAction(col_config, col_config.tests[j]) = action}}

\* the rows of the table with their original values, for the row labels in
\* rows
OriginalRows(rows) ==
    LET keep == SelectSeq([k \in 1..NumRows(TheTable) |-> k],
                          LAMBDA k : TheTable.index[k] \in rows)
    IN  Table(TheTable.columns, [k \in 1..Len(keep) |-> TheTable.index[keep[k]]],
              [c \in DOMAIN TheTable.data |->
                  [k \in 1..Len(keep) |-> TheTable.data[c][keep[k]]]])

\* C17: the cleaned output has the rows of the input but those targeted by
\* drop_row or quarantine_row; the quarantine output has exactly the rows
\* targeted by quarantine_row, with their original values; no row is in
\* both; a row targeted by both actions is in the quarantine output and not
\* in the cleaned output.
C17_PartitionConsistent ==
    FailureHandled =>
        LET result == eng_out[1].value[1]
            dropped == Targeted("drop_row")
            quarantined == Targeted("quarantine_row")
        IN  /\ result.clean_df.index =
                  SelectSeq(TheTable.index, LAMBDA i : i \notin dropped \cup quarantined)
            /\ result.quarantine_df = OriginalRows(quarantined)
            /\ SeqToSet(result.clean_df.index) \cap SeqToSet(result.quarantine_df.index) = {}
            /\ \A i \in dropped \cap quarantined :
                  /\ i \in SeqToSet(result.quarantine_df.index)
                  /\ i \notin SeqToSet(result.clean_df.index)

\* a table of two rows: the first is targeted by drop_row for its a and by
\* quarantine_row for its b and is in the quarantine output only, the
\* second is targeted by neither and is in the cleaned output only
C17_Witness ==
    /\ FailureHandled
    /\ NumRows(TheTable) = 2
    /\ Targeted("drop_row") = {0}
    /\ Targeted("quarantine_row") = {0}
    /\ eng_out[1].value[1].quarantine_df.index = <<0>>
    /\ eng_out[1].value[1].clean_df.index = <<1>>

\* the test of a column config fails on the table
TestFails(col_config, test) ==
    \E k \in 1..NumRows(TheTable) : RowFails(col_config, test, k)

\* run_validation reports a blocking error for the test of the column
Escalated(col_config, test) ==
    \E b \in SeqToSet(eng_out[1].value[1].blocking_errors) :
        /\ b.kind = "column strict_fail"
        /\ b.name = col_config.name
        /\ b.test_type = test.type

\* C18: escalation follows the resolved action of the failing test (its
\* on_fail when it has one, else the action of the column): a failing
\* error-severity test with resolved action strict_fail adds a blocking
\* error, one with any other resolved action adds none.
C18_EscalationByResolvedAction ==
    Validated =>
        \A c \in 1..Len(eng_args.contract.columns) :
            \A j \in 1..Len(eng_args.contract.columns[c].tests) :
                LET col_config == eng_args.contract.columns[c]
                    test == col_config.tests[j]
                IN  TestFails(col_config, test) =>
                        /\ (test.severity = "error"
                            /\ ResolvedAction(col_config, test) = "strict_fail")
                           => Escalated(col_config, test)
                        /\ ResolvedAction(col_config, test) # "strict_fail"
                           => ~Escalated(col_config, test)

\* the label add_error_columns is to write for the row labelled idx: one
\* token test_type:column_name for every given cell error of the row
ExpectedLabel(idx) ==
    LET of == SelectSeq([k \in 1..Len(GivenErrors) |-> k],
                        LAMBDA k : GivenErrors[k].row_index = idx)
    IN  JoinPipe([k \in 1..Len(of) |->
            <<GivenErrors[of[k]].test_type, ":", GivenErrors[of[k]].column_name>>])

\* the number of tokens of a label
TokenCount(label) ==
    IF label = <<>> THEN 0
    ELSE 1 + Cardinality({k \in 1..Len(label) : label[k] = "|"})

\* C20: in the table add_error_columns returns, the error label of every
\* row is the pipe-joined list of one token test_type:column_name per cell
\* error of the row, the error count is the number of tokens of the label,
\* and the status is FAIL exactly when the count is above 0, else PASS.
C20_ErrorColumnsConsistent ==
    (eng_out # <<>> /\ eng_out[1].fn = "add_error_columns") =>
        LET result_df == eng_out[1].value[1]
        IN  \A k \in 1..NumRows(TheTable) :
                /\ result_df.data[ERROR_COLUMN_NAME][k] = ExpectedLabel(TheTable.index[k])
                /\ result_df.data[ERROR_COUNT_COLUMN_NAME][k]
                      = TokenCount(result_df.data[ERROR_COLUMN_NAME][k])
                /\ result_df.data[STATUS_COLUMN_NAME][k] \in {STATUS_PASS, STATUS_FAIL}
                /\ result_df.data[STATUS_COLUMN_NAME][k] = STATUS_FAIL
                      <=> result_df.data[ERROR_COUNT_COLUMN_NAME][k] > 0

\* the export page was rendered on a session with validation results
ExportRendered ==
    /\ eng_out # <<>>
    /\ eng_out[1].fn = "render_step_export"
    /\ eng_out[1].validation_result # <<>>

\* the buttons of the page whose download holds a table of the dataset
DatasetDownloads ==
    LET buttons == eng_out[1].value[1].buttons
    IN  {k \in 1..Len(buttons) :
            \E f \in 1..Len(buttons[k].files) : buttons[k].files[f].tables # <<>>}

NormalizeCells ==
    {StrCell(<<" ", "N", "A">>), StrCell(<<"N", "A">>), StrCell(<<"n", "a">>),
     StrCell(<<"<BEL>", " ", "N", "A">>), StrCell(<<"a">>), IntCell(1), NullCell}

NullTokenLists == {<<>>, <<<<"N", "A">>>>, <<<<"n", "a">>>>, <<<<"1">>>>}

Normalizations ==
    {Normalization(trim_whitespace, null_tokens, case, remove_non_printable) :
        trim_whitespace \in BOOLEAN, null_tokens \in NullTokenLists,
        case \in {"none", "lower", "upper"}, remove_non_printable \in BOOLEAN}

NormalizeInit ==
    /\ \E n \in 1..MaxTableRows, norm \in Normalizations :
          \E cells \in CellRows(NormalizeCells, n) :
              /\ eng_heap = <<Table(<<"a">>, RangeIndex(n), [c \in {"a"} |-> cells])>>
              /\ eng_args = [df |-> 1, fk_dataframe |-> 0, seed |-> 1,
                             contract |-> Contract("1.0",
                                 <<EngineColumn("a", <<norm>>, <<>>, <<>>)>>, <<>>, <<>>)]
    /\ eng_before = [heap |-> eng_heap, contract |-> eng_args.contract]
    /\ eng_out = <<>>

CallApplyNormalizations ==
    /\ eng_out = <<>>
    /\ LET Done(call) ==
            /\ eng_heap' = call.heap
            /\ eng_out' = <<EngOut("_apply_normalizations", Returned(call.ref))>>
       IN  Done(_apply_normalizations(eng_heap, eng_args.df, eng_args.contract))
    /\ UNCHANGED <<eng_args, eng_before>>

SpecNormalizeInit == NormalizeInit /\ CvParked /\ ColParked /\ DateParked /\ WizParked /\ UpParked

SpecNormalizeNext ==
    CallApplyNormalizations /\ UNCHANGED <<cvVars, colVars, dateVars, wizVars, upVars>>

SpecNormalize == SpecNormalizeInit /\ [][SpecNormalizeNext]_vars

(***************************************************************************)
(* Properties of normalization.                                            *)
(***************************************************************************)
Normalized == eng_out # <<>> /\ eng_out[1].fn = "_apply_normalizations"

\* C21: after _apply_normalizations, whatever the normalization settings, no
\* non-null cell of the column has a trimmed string form equal to one of the
\* configured null tokens.
C21_NoNullTokenSurvives ==
    Normalized =>
        LET cells == eng_heap[eng_out[1].value[1]].data["a"]
            norm == eng_args.contract.columns[1].normalization[1]
        IN  \A k \in 1..Len(cells) :
                ~IsNull(cells[k]) =>
                    Strip(PyStr(cells[k])) \notin SeqToSet(norm.null_tokens)


(***************************************************************************)
(* Properties of the column tests on amounts, patterns and date windows.   *)
(***************************************************************************)
ConformanceRan ==
    /\ col_input.test_type = "type_conformance"
    /\ col_input.data_type \in {"integer", "float"}
    /\ col_runs # <<>>

\* s without its thousands-separator commas and without a leading $
Amount(s) ==
    LET bare == FilterChars(Strip(s), {","})
    IN  IF bare # <<>> /\ Head(bare) = "$" THEN Tail(bare) ELSE bare

\* C22: type_conformance for integer and for float fails exactly the
\* non-null values that are not a valid number of the type once the commas
\* and a leading $ are removed; "$1,000" is an integer and "$1,000.50" a
\* float, and nulls are skipped.
C22_AmountsConform ==
    ConformanceRan =>
        LET values == col_input.series.values
            expected == {k \in 1..Len(values) :
                            /\ ~IsNull(values[k])
                            /\ IF col_input.data_type = "integer"
                               THEN ~IsPyInt(Amount(PyStr(values[k])))
                               ELSE ~IsPyFloat(Amount(PyStr(values[k])))}
        IN  /\ col_runs[1].failed_count = Cardinality(expected)
            /\ Len(values) <= FAILED_CAP =>
                  col_runs[1].failed_indices
                      = [j \in 1..Cardinality(expected) |->
                            col_input.series.index[
                                CHOOSE k \in expected :
                                    Cardinality({m \in expected : m < k}) = j - 1]]


PatternRan ==
    /\ col_input.test_type = "pattern"
    /\ PatternOfTier(col_input.params) # <<>>
    /\ col_runs # <<>>

\* the whole of s, from its first to its last character, matches the atoms
FullMatch(regex, s) == (Len(s) + 1) \in AtomsEnds(regex.atoms, s, {1})

\* C23: in every tier the pattern test fails exactly the non-null values
\* whose entire string does not match the pattern: a value that only begins
\* with a match, such as "AB123xyz" against [A-Z]{2}[0-9]{3}, fails.
C23_FullStringMatch ==
    PatternRan =>
        LET values == col_input.series.values
            regex == PatternOfTier(col_input.params)[1]
        IN  col_runs[1].failed_indices
                = [j \in 1..Len(col_runs[1].failed_indices) |->
                      col_input.series.index[
                          Positions([k \in 1..Len(values) |->
                              /\ ~IsNull(values[k])
                              /\ ~FullMatch(regex, PyStr(values[k]))])[j]]]
            /\ col_runs[1].failed_count
                = Len(Positions([k \in 1..Len(values) |->
                          ~IsNull(values[k]) /\ ~FullMatch(regex, PyStr(values[k]))]))


DateWindowRan ==
    /\ col_input.test_type = "date_window"
    /\ col_input.params.min_date = <<>> /\ col_input.params.max_date = <<>>
    /\ col_runs # <<>>

\* the day number of an ISO date string, <<>> for text that is no date
DayOf(text) == parse_date_with_format(text, "YYYY-MM-DD")

\* C24: with the contract parameters not_before and not_after, each of them
\* optional, date_window fails exactly the non-null values that parse as a
\* date and lie before not_before or after not_after; a value equal to a
\* bound passes and a value that does not parse is skipped.
C24_WindowOfContractBounds ==
    DateWindowRan =>
        LET values == col_input.series.values
            params == col_input.params
            outside == Positions([k \in 1..Len(values) |->
                /\ ~IsNull(values[k])
                /\ DayOf(PyStr(values[k])) # <<>>
                /\ \/ /\ params.not_before # <<>>
                      /\ DayOf(PyStr(values[k]))[1] < DayOf(params.not_before)[1]
                   \/ /\ params.not_after # <<>>
                      /\ DayOf(PyStr(values[k]))[1] > DayOf(params.not_after)[1]])
        IN  /\ col_runs[1].failed_count = Len(outside)
            /\ col_runs[1].failed_indices
                  = [j \in 1..Len(outside) |-> col_input.series.index[outside[j]]]
            /\ col_runs[1].passed <=> outside = <<>>


(***************************************************************************)
(* Properties of rules with more than one comparison.                      *)
(***************************************************************************)
\* the rule of the contract joins two comparisons, and the table has a row
\* that the gate of the rule lets through
MultiClauseRule ==
    /\ TheDatasetTest.type = "cross_field_rule"
    /\ Find(TheDatasetTest.params.expression, <<" ", "A", "N", "D", " ">>) > 0
    /\ \E k \in 1..NumRows(TheTable) : ~GatedOut(k)

\* the result of the rule, from run_dataset_test or inside the
\* ValidationResult of run_validation
RuleResult ==
    IF eng_out[1].fn = "run_dataset_test" THEN eng_out[1].value[1]
    ELSE eng_out[1].value[1].dataset_test_results[1]

\* C25: a rule whose expression holds more than one comparison is reported
\* as a failed result with a parse error; it is not evaluated with the rest
\* of the expression taken as a literal operand, and run_validation still
\* returns its result.
C25_MultiClauseIsParseError ==
    (eng_out # <<>> /\ MultiClauseRule) =>
        /\ ~eng_out[1].raised
        /\ ~RuleResult.passed
        /\ RuleResult.message = "Error evaluating expression"


\* the columns of the contract that declare deduplicate_rows
DeduplicateDeclared(contract) ==
    {k \in 1..Len(contract.columns) : FirstDeduplicate(contract.columns[k]) # 0}

\* run_remediation has been called and every declared subset names columns
\* of the table
RemediationRan ==
    /\ EngCalled("run_remediation")
    /\ \A k \in DeduplicateDeclared(eng_args.contract) :
          ~SubsetMissing(TheTable, RemParams(eng_args.contract.columns[k],
                                FirstDeduplicate(eng_args.contract.columns[k])))

\* the tables the call allocated after the copy of the argument
AllocatedAfterCopy == Len(eng_heap) - Len(eng_before.heap) - 1

\* C26: one call of run_remediation executes deduplicate_rows exactly once
\* when one or more columns declare it (and never when none does), and on
\* the table that holds the column treatments of every column: the call
\* allocates one table after its copy, and that table is deduplicate_rows,
\* with the params of a declaring column, of the argument with every
\* column's treatments applied.
C26_DeduplicateOnce ==
    RemediationRan =>
        LET contract == eng_args.contract
            declared == DeduplicateDeclared(contract)
            treated == RemediateColumns(TheTable, contract.columns, 1)
        IN  IF declared = {} THEN AllocatedAfterCopy = 0
            ELSE /\ AllocatedAfterCopy = 1
                 /\ \E k \in declared :
                       eng_heap[Len(eng_heap)] =
                          deduplicate_rows(treated,
                             RemParams(contract.columns[k],
                                       FirstDeduplicate(contract.columns[k])))

\* run_remediation ran on a contract with two columns that declare
\* deduplicate_rows
TwoColumnsDeduplicate ==
    RemediationRan /\ Cardinality(DeduplicateDeclared(eng_args.contract)) = 2

\* the part of C26 that the code has: the last table allocated holds the
\* treatments of every column, deduplicated once per declaring column in
\* the order of the columns
DeduplicatedAfterTreatments ==
    (RemediationRan /\ DeduplicateDeclared(eng_args.contract) # {}) =>
        LET contract == eng_args.contract
            treated == RemediateColumns(TheTable, contract.columns, 1)
            done == DeduplicateColumns(<<treated>>, 1, contract.columns, 1)
        IN  /\ AllocatedAfterCopy = Cardinality(DeduplicateDeclared(contract))
            /\ eng_heap[Len(eng_heap)] = done.heap[done.ref]


\* run_validation has returned its ValidationResult
ValidationReturned == EngCalled("run_validation") /\ ~eng_out[1].raised

\* a ColumnTestResult of severity error with passed=false is among the
\* column results
ErrorColumnTestFailed(result) ==
    \E k \in 1..Len(result.column_results) :
        \E j \in 1..Len(result.column_results[k].test_results) :
            /\ result.column_results[k].test_results[j].severity = "error"
            /\ ~result.column_results[k].test_results[j].passed

\* the same, the failure being an aggregate one: no failed index
AggregateColumnTestFailed(result) ==
    \E k \in 1..Len(result.column_results) :
        \E j \in 1..Len(result.column_results[k].test_results) :
            /\ result.column_results[k].test_results[j].severity = "error"
            /\ ~result.column_results[k].test_results[j].passed
            /\ result.column_results[k].test_results[j].failed_indices = <<>>

\* C27: whenever the result of run_validation holds a ColumnTestResult of
\* severity error with passed=false (aggregate failures with no failed
\* index included), a failed dataset test of severity error or a failed
\* foreign-key check, is_valid is false and summary.total_errors is greater
\* than 0.
C27_ValidOnlyIfEveryErrorTestPassed ==
    ValidationReturned =>
        LET result == eng_out[1].value[1] IN
        (\/ ErrorColumnTestFailed(result)
         \/ \E k \in 1..Len(result.dataset_test_results) :
               /\ result.dataset_test_results[k].severity = "error"
               /\ ~result.dataset_test_results[k].passed
         \/ \E k \in 1..Len(result.fk_check_results) :
               ~result.fk_check_results[k].passed)
        => (~result.is_valid /\ result.summary.total_errors > 0)

\* the part of C27 that the code has: the failures that are counted are
\* the failed dataset tests of severity error, the failed foreign-key
\* checks and the column tests of severity error that report failed rows
CountedFailuresInvalidate ==
    ValidationReturned =>
        LET result == eng_out[1].value[1] IN
        (\/ \E k \in 1..Len(result.column_results) :
               \E j \in 1..Len(result.column_results[k].test_results) :
                  /\ result.column_results[k].test_results[j].severity = "error"
                  /\ ~result.column_results[k].test_results[j].passed
                  /\ result.column_results[k].test_results[j].failed_indices # <<>>
         \/ \E k \in 1..Len(result.dataset_test_results) :
               /\ result.dataset_test_results[k].severity = "error"
               /\ ~result.dataset_test_results[k].passed
         \/ \E k \in 1..Len(result.fk_check_results) :
               ~result.fk_check_results[k].passed)
        => (~result.is_valid /\ result.summary.total_errors > 0)

\* an aggregate failure of severity error in a result that is_valid
AggregateFailureValid ==
    /\ ValidationReturned
    /\ AggregateColumnTestFailed(eng_out[1].value[1])
    /\ eng_out[1].value[1].is_valid


(***************************************************************************)
(* src/src/contract/schema.py and parser.py: contract_to_dict,             *)
(* dict_to_contract, serialize_contract_to_yaml and parse_yaml_contract.   *)
(*                                                                         *)
(* A dict is a function on its keys.  A YAML document is a tree of nodes:  *)
(* a scalar [style, text], a sequence of nodes or a mapping of keys to     *)
(* nodes.  The params of a test is a dict of plain values and crosses the  *)
(* document as one node.                                                   *)
(***************************************************************************)
EmptyDict == [key \in {} |-> key]

\* result[field_name] = ... only "if value is not None", for a field that
\* holds a str or None
NotNoneEntry(field_name, value) ==
    IF value = NONE THEN EmptyDict ELSE field_name :> value

\* the same for a field that holds <<>> (None) or <<value>>
OptionalEntry(field_name, optional, to_dict(_)) ==
    IF optional = <<>> THEN EmptyDict ELSE field_name :> to_dict(optional[1])

failure_handling_to_dict(fh) ==
    ("action" :> fh.action)
    @@ NotNoneEntry("label_column_name", fh.label_column_name)
    @@ NotNoneEntry("quarantine_export_name", fh.quarantine_export_name)

normalization_to_dict(normalization) ==
    [trim_whitespace |-> normalization.trim_whitespace,
     null_tokens |-> normalization.null_tokens, case |-> normalization.case,
     remove_non_printable |-> normalization.remove_non_printable]

test_config_to_dict(test) ==
    [type |-> test.type, severity |-> test.severity, params |-> test.params]
    @@ OptionalEntry("on_fail", test.on_fail, failure_handling_to_dict)

column_config_to_dict(col_config) ==
    [name |-> col_config.name, data_type |-> col_config.data_type,
     tests |-> [j \in 1..Len(col_config.tests) |->
                    test_config_to_dict(col_config.tests[j])],
     remediation |-> [j \in 1..Len(col_config.remediation) |->
                        [type |-> col_config.remediation[j],
                         params |-> RemParams(col_config, j)]]]
    @@ OptionalEntry("normalization", col_config.normalization, normalization_to_dict)
    @@ OptionalEntry("failure_handling", col_config.failure_handling,
                     failure_handling_to_dict)

foreign_key_check_to_dict(fk) ==
    [name |-> fk.name, dataset_column |-> fk.dataset_column, fk_file |-> fk.fk_file,
     fk_column |-> fk.fk_column,
     normalization_inherit_from_dataset_column |->
        fk.normalization_inherit_from_dataset_column,
     null_policy |-> [allow_nulls |-> fk.allow_nulls]]
    @@ OptionalEntry("on_fail", fk.on_fail, failure_handling_to_dict)

\* contract_to_dict(contract): dataclass_to_dict over the dataclasses of the
\* contract
contract_to_dict(contract) ==
    [contract_version |-> contract.contract_version,
     contract_id |-> contract.contract_id,
     created_at_utc |-> contract.created_at_utc,
     app |-> [name |-> contract.app_name],
     columns |-> [k \in 1..Len(contract.columns) |->
                    column_config_to_dict(contract.columns[k])],
     dataset_tests |-> [k \in 1..Len(contract.dataset_tests) |->
                          test_config_to_dict(contract.dataset_tests[k])],
     foreign_key_checks |-> [k \in 1..Len(contract.foreign_key_checks) |->
                               foreign_key_check_to_dict(contract.foreign_key_checks[k])]]
    @@ (IF contract.dataset THEN "dataset" :> EmptyDict ELSE EmptyDict)

\* The texts PyYAML's implicit resolver gives a tag other than str: of the
\* strings of the contracts, and of the null tokens (strings held as
\* sequences of characters).
YAML_IMPLICIT_NULL == {"", "~", "null", "Null", "NULL"}

YAML_IMPLICIT_BOOL ==
    {"yes", "Yes", "YES", "no", "No", "NO", "true", "True", "TRUE", "false", "False",
     "FALSE", "on", "On", "ON", "off", "Off", "OFF"}

YAML_IMPLICIT_FLOAT == {"1.0", "2.0", "0.9"}

YAML_IMPLICIT_NULL_CHARS ==
    {<<>>, <<"~">>, <<"n", "u", "l", "l">>, <<"N", "u", "l", "l">>,
     <<"N", "U", "L", "L">>}

ImplicitTag(text) ==
    IF text \in YAML_IMPLICIT_NULL THEN "null"
    ELSE IF text \in YAML_IMPLICIT_BOOL THEN "bool"
    ELSE IF text \in YAML_IMPLICIT_FLOAT THEN "float"
    ELSE "str"

ImplicitTagChars(text) ==
    IF text \in YAML_IMPLICIT_NULL_CHARS THEN "null"
    ELSE IF IsDigits(text) THEN "int"
    ELSE "str"

Scalar(style, chars, text) ==
    [kind |-> "scalar", style |-> style, chars |-> chars, text |-> text]

\* represent_str: plain when the text resolves to str, quoted when not
represent_str(data) ==
    Scalar(IF ImplicitTag(data) = "str" THEN "plain" ELSE "quoted", FALSE, data)

represent_chars(data) ==
    Scalar(IF ImplicitTagChars(data) = "str" THEN "plain" ELSE "quoted", TRUE, data)

represent_bool(data) == Scalar("plain", FALSE, IF data THEN "true" ELSE "false")

\* the keys of the dicts of contract_to_dict by the type of their value
StrKeys ==
    {"action", "label_column_name", "quarantine_export_name", "type", "severity",
     "name", "data_type", "case", "contract_version", "contract_id", "created_at_utc",
     "dataset_column", "fk_file", "fk_column"}

BoolKeys ==
    {"trim_whitespace", "remove_non_printable",
     "normalization_inherit_from_dataset_column", "allow_nulls"}

DictKeys == {"on_fail", "failure_handling", "normalization", "app", "dataset", "null_policy"}

DictListKeys == {"columns", "tests", "remediation", "dataset_tests", "foreign_key_checks"}

\* yaml.dump(contract_dict, ...): the document of a dict
RECURSIVE represent_dict(_)
represent_dict(data) ==
    [kind |-> "mapping",
     value |-> [key \in DOMAIN data |->
        CASE key \in StrKeys -> represent_str(data[key])
          [] key \in BoolKeys -> represent_bool(data[key])
          [] key = "null_tokens" ->
                [kind |-> "sequence",
                 value |-> [i \in 1..Len(data[key]) |-> represent_chars(data[key][i])]]
          [] key \in DictKeys -> represent_dict(data[key])
          [] key \in DictListKeys ->
                [kind |-> "sequence",
                 value |-> [i \in 1..Len(data[key]) |-> represent_dict(data[key][i])]]
          [] key = "params" -> [kind |-> "plain", value |-> data[key]]]]

\* construct_scalar: a quoted scalar is a str, a plain one what the implicit
\* resolver makes of its text; a number is held with its tag
construct_scalar(node) ==
    LET tag == IF node.style = "quoted" THEN "str"
               ELSE IF node.chars THEN ImplicitTagChars(node.text)
               ELSE ImplicitTag(node.text)
    IN  CASE tag = "str" -> node.text
          [] tag = "null" -> NONE
          [] tag = "bool" -> node.text \in {"yes", "Yes", "YES", "true", "True", "TRUE",
                                            "on", "On", "ON"}
          [] OTHER -> [tag |-> tag, text |-> node.text]

\* yaml.safe_load(yaml_content): the value of a document
RECURSIVE construct_object(_)
construct_object(node) ==
    CASE node.kind = "scalar" -> construct_scalar(node)
      [] node.kind = "plain" -> node.value
      [] node.kind = "sequence" ->
            [i \in 1..Len(node.value) |-> construct_object(node.value[i])]
      [] node.kind = "mapping" ->
            [key \in DOMAIN node.value |-> construct_object(node.value[key])]

serialize_contract_to_yaml(contract) == represent_dict(contract_to_dict(contract))

\* data.get(key, default)
Get(data, key, default) == IF key \in DOMAIN data THEN data[key] ELSE default

\* data.get(key) of a key that holds a dict: <<>> for None
GetDict(data, key) == IF key \in DOMAIN data THEN <<data[key]>> ELSE <<>>

dict_to_normalization(data) ==
    IF data = <<>> THEN <<>>
    ELSE <<Normalization(Get(data[1], "trim_whitespace", TRUE),
                         Get(data[1], "null_tokens", DefaultNormalization.null_tokens),
                         Get(data[1], "case", "none"),
                         Get(data[1], "remove_non_printable", TRUE))>>

\* "if data is None: return FailureHandling()"
dict_to_failure_handling(data) ==
    IF data = <<>> THEN DefaultFailureHandling
    ELSE FailureHandling(Get(data[1], "action", "strict_fail"),
                         Get(data[1], "label_column_name", NONE),
                         Get(data[1], "quarantine_export_name", NONE))

dict_to_test_config(data) ==
    TestConfig(Get(data, "type", ""), Get(data, "severity", "error"),
               Get(data, "params", NoTestParams),
               <<dict_to_failure_handling(GetDict(data, "on_fail"))>>)

dict_to_dataset_test(dt) ==
    DatasetTest(Get(dt, "type", ""), Get(dt, "severity", "error"),
                Get(dt, "params", NoDatasetParams),
                <<dict_to_failure_handling(GetDict(dt, "on_fail"))>>)

dict_to_remediation_config(data) ==
    [type |-> Get(data, "type", ""), params |-> Get(data, "params", NoRemediationParams)]

dict_to_column_config(data) ==
    LET tests == Get(data, "tests", <<>>)
        remediation == [j \in 1..Len(Get(data, "remediation", <<>>)) |->
                            dict_to_remediation_config(data.remediation[j])]
    IN  [ColumnConfig(Get(data, "name", ""), Get(data, "data_type", "string"),
                      <<dict_to_failure_handling(GetDict(data, "failure_handling"))>>,
                      [j \in 1..Len(tests) |-> dict_to_test_config(tests[j])],
                      [j \in 1..Len(remediation) |-> remediation[j].type])
            EXCEPT !.normalization = dict_to_normalization(GetDict(data, "normalization")),
                   !.remediation_params =
                        IF \A j \in 1..Len(remediation) :
                                remediation[j].params = NoRemediationParams
                        THEN <<>>
                        ELSE [j \in 1..Len(remediation) |-> remediation[j].params]]

dict_to_foreign_key_check(fk) ==
    ForeignKeyCheck(Get(fk, "name", ""), Get(fk, "dataset_column", ""),
                    Get(fk, "fk_file", ""), Get(fk, "fk_column", ""),
                    Get(fk, "normalization_inherit_from_dataset_column", TRUE),
                    Get(Get(fk, "null_policy", EmptyDict), "allow_nulls", FALSE),
                    <<dict_to_failure_handling(GetDict(fk, "on_fail"))>>)

\* dict_to_contract(data); a contract_id or created_at_utc that is missing
\* is made anew, "<new>"
dict_to_contract(data) ==
    LET columns == Get(data, "columns", <<>>)
        dataset_tests == Get(data, "dataset_tests", <<>>)
        foreign_key_checks == Get(data, "foreign_key_checks", <<>>)
    IN  [contract_version |-> Get(data, "contract_version", "1.0"),
         contract_id |-> Get(data, "contract_id", "<new>"),
         created_at_utc |-> Get(data, "created_at_utc", "<new>"),
         app_name |-> Get(Get(data, "app", EmptyDict), "name", "Data Doctor"),
         dataset |-> TRUE,
         columns |-> [k \in 1..Len(columns) |-> dict_to_column_config(columns[k])],
         dataset_tests |->
            [k \in 1..Len(dataset_tests) |-> dict_to_dataset_test(dataset_tests[k])],
         foreign_key_checks |->
            [k \in 1..Len(foreign_key_checks) |->
                dict_to_foreign_key_check(foreign_key_checks[k])]]

\* parse_yaml_contract(yaml_content) on a document whose root is a mapping:
\* the contract of (contract, None)
parse_yaml_contract(yaml_content) == dict_to_contract(construct_object(yaml_content))

(***************************************************************************)
(* Specification 9: serialize_contract_to_yaml on a contract, then         *)
(* parse_yaml_contract on the document it returned.  The variables are     *)
(* those of specification 4; no table is involved.                         *)
(***************************************************************************)
\* the contracts of specifications 4 and 7, and contracts with a dataset test
\* that has no on_fail
SerializeContracts ==
    EngineContracts \cup FailureContracts
    \cup {Contract("1.0", <<FailureColumnB>>,
                   <<DatasetTest("duplicate_rows", severity, NoDatasetParams, on_fail)>>,
                   <<>>) :
            severity \in SEVERITY_LEVELS, on_fail \in FailureOverrides}

SerializeInit ==
    /\ eng_heap = <<>>
    /\ \E contract \in SerializeContracts :
          eng_args = [df |-> 0, fk_dataframe |-> 0, contract |-> contract, seed |-> 1]
    /\ eng_before = [heap |-> eng_heap, contract |-> eng_args.contract]
    /\ eng_out = <<>>

CallSerializeContractToYaml ==
    /\ eng_out = <<>>
    /\ eng_out' = <<EngOut("serialize_contract_to_yaml",
                           Returned(serialize_contract_to_yaml(eng_args.contract)))>>
    /\ UNCHANGED <<eng_heap, eng_args, eng_before>>

CallParseYamlContract ==
    /\ EngCalled("serialize_contract_to_yaml")
    /\ eng_out' = <<EngOut("parse_yaml_contract",
                           Returned(parse_yaml_contract(eng_out[1].value[1])))>>
    /\ UNCHANGED <<eng_heap, eng_args, eng_before>>

SpecSerializeInit == SerializeInit /\ CvParked /\ ColParked /\ DateParked /\ WizParked /\ UpParked

SpecSerializeNext ==
    (CallSerializeContractToYaml \/ CallParseYamlContract)
    /\ UNCHANGED <<cvVars, colVars, dateVars, wizVars, upVars>>

SpecSerialize == SpecSerializeInit /\ [][SpecSerializeNext]_vars

\* the contract has been serialized and the document parsed
RoundTripped == EngCalled("parse_yaml_contract")

\* a cell error of test j of column k
CellErrorOf(contract, k, j) ==
    CellValidationResult(0, contract.columns[k].name, NullCell,
                         contract.columns[k].tests[j].type, NoDetail,
                         contract.columns[k].tests[j].severity)

\* C28: the contract parsed from the YAML of a contract equals the
\* contract; a column test or dataset test without an on_fail has none
\* after parsing, and a failure of such a column test resolves to the
\* failure action of its column.
C28_SerializationRoundTrips ==
    RoundTripped =>
        LET contract == eng_args.contract
            parsed == eng_out[1].value[1]
        IN  /\ parsed = contract
            /\ \A k \in 1..Len(contract.dataset_tests) :
                  contract.dataset_tests[k].on_fail = <<>> =>
                     parsed.dataset_tests[k].on_fail = <<>>
            /\ \A k \in 1..Len(contract.columns) :
                  \A j \in 1..Len(contract.columns[k].tests) :
                     contract.columns[k].tests[j].on_fail = <<>> =>
                        /\ parsed.columns[k].tests[j].on_fail = <<>>
                        /\ ErrorAction(parsed, CellErrorOf(contract, k, j))
                              = <<contract.columns[k].failure_handling[1].action>>

\* the contract with FailureHandling() as the on_fail of every test that
\* has none
WithDefaultOnFail(contract) ==
    LET Filled(tests) ==
            [j \in 1..Len(tests) |->
                IF tests[j].on_fail = <<>>
                THEN [tests[j] EXCEPT !.on_fail = <<DefaultFailureHandling>>]
                ELSE tests[j]]
    IN  [contract EXCEPT
            !.columns = [k \in 1..Len(@) |-> [@[k] EXCEPT !.tests = Filled(@)]],
            !.dataset_tests = Filled(@)]

\* the part of C28 that the code has: the round trip changes nothing but
\* the on_fail of the tests that have none
RoundTripUpToOnFail ==
    RoundTripped => eng_out[1].value[1] = WithDefaultOnFail(eng_args.contract)

\* a contract with a column test without on_fail, on a column whose action
\* is not strict_fail, has made the round trip
RoundTripWithoutOnFail ==
    /\ RoundTripped
    /\ \E k \in 1..Len(eng_args.contract.columns) :
          /\ eng_args.contract.columns[k].failure_handling[1].action # "strict_fail"
          /\ \E j \in 1..Len(eng_args.contract.columns[k].tests) :
                eng_args.contract.columns[k].tests[j].on_fail = <<>>


(***************************************************************************)
(* src/src/session.py: upload rate limiting.                               *)
(*                                                                         *)
(* Specification 10: the upload page under the clock.  up_session holds    *)
(* the session_state keys that the limiter and the upload handlers read    *)
(* and write; the contract and the results of the later steps are left     *)
(* out.  Time is in seconds and advances in steps of TickSeconds.          *)
(***************************************************************************)
MAX_UPLOADS_PER_MINUTE == 5

\* check_rate_limit: one_minute_ago = current_time - 60
RATE_WINDOW == 60

TickSeconds == 30

MaxClock == 60

MaxUploads == 6

UploadFiles == {"f1", "f2"}

\* initialize_session_state, on the keys of up_session
UploadSessionState ==
    [current_step |-> 1, upload_mode |-> NONE, file_hash |-> NONE,
     dataframe |-> <<>>, upload_timestamps |-> <<>>]

\* reset_session_state(): every key is deleted and initialized anew
ResetUploadSession == UploadSessionState

\* reset_from_step(step): at step 1 everything but the upload timestamps;
\* the later steps reset keys of the contract and of the results only
reset_from_step(s, step) ==
    IF step <= 1
    THEN [ResetUploadSession EXCEPT !.upload_timestamps = s.upload_timestamps]
    ELSE s

\* check_rate_limit(): the session with the timestamps of the last minute,
\* and is_allowed
check_rate_limit(s, current_time) ==
    LET one_minute_ago == current_time - RATE_WINDOW
        recent_uploads == SelectSeq(s.upload_timestamps, LAMBDA ts : ts > one_minute_ago)
    IN  [session |-> [s EXCEPT !.upload_timestamps = recent_uploads],
         is_allowed |-> Len(recent_uploads) < MAX_UPLOADS_PER_MINUTE]

record_upload(s, current_time) ==
    [s EXCEPT !.upload_timestamps = Append(@, current_time)]

\* _handle_primary_file(uploaded_file) and _load_primary_data: valid is the
\* verdict of validate_upload, readable whether the file reads into a table
\* within the limits.  Returns the session and whether the upload passed
\* validate_upload.
_handle_primary_file(s, new_hash, valid, readable, current_time) ==
    IF new_hash = s.file_hash THEN [session |-> s, accepted |-> FALSE]
    ELSE IF ~valid THEN [session |-> reset_from_step(s, 1), accepted |-> FALSE]
    ELSE IF ~readable
    THEN [session |-> record_upload(reset_from_step(s, 1), current_time),
          accepted |-> TRUE]
    ELSE [session |-> [record_upload(reset_from_step(s, 1), current_time)
                          EXCEPT !.file_hash = new_hash, !.dataframe = <<new_hash>>],
          accepted |-> TRUE]

\* _process_contract_and_data(contract_file, data_file): parsed is whether
\* the contract file parses
_process_contract_and_data(s, file_hash, parsed, valid, readable) ==
    IF ~parsed \/ ~valid THEN [session |-> s, accepted |-> FALSE]
    ELSE IF ~readable THEN [session |-> s, accepted |-> TRUE]
    ELSE [session |-> [s EXCEPT !.file_hash = file_hash, !.dataframe = <<file_hash>>,
                                !.current_step = 4],
          accepted |-> TRUE]

UploadInit ==
    /\ up_session = UploadSessionState
    /\ up_now = 0
    /\ up_log = <<>>

\* render_step_upload has passed its rate limit check and shows its widgets
UploadPageAllowed ==
    /\ up_session.current_step = 1
    /\ check_rate_limit(up_session, up_now).is_allowed

\* what the script run of an input on the upload page starts from
Checked == check_rate_limit(up_session, up_now).session

UpTick ==
    /\ up_now + TickSeconds <= MaxClock
    /\ up_now' = up_now + TickSeconds
    /\ UNCHANGED <<up_session, up_log>>

\* a script run of the upload page without input
UpRerun ==
    /\ up_session.current_step = 1
    /\ up_session' = Checked
    /\ UNCHANGED <<up_now, up_log>>

UpChooseMode ==
    /\ UploadPageAllowed
    /\ up_session.upload_mode = NONE /\ up_session.dataframe = <<>>
    /\ \E mode \in {"fresh", "contract"} :
          up_session' = [Checked EXCEPT !.upload_mode = mode]
    /\ UNCHANGED <<up_now, up_log>>

UpBackToOptions ==
    /\ UploadPageAllowed
    /\ \/ up_session.upload_mode = "contract"
       \/ up_session.upload_mode = "fresh" /\ up_session.dataframe = <<>>
    /\ up_session' = [Checked EXCEPT !.upload_mode = NONE]
    /\ UNCHANGED <<up_now, up_log>>

UpUploadPrimaryFile ==
    /\ UploadPageAllowed /\ Len(up_log) < MaxUploads
    /\ up_session.upload_mode = "fresh" /\ up_session.dataframe = <<>>
    /\ \E file \in UploadFiles, valid \in BOOLEAN, readable \in BOOLEAN :
          LET Done(handled) ==
                /\ up_session' = handled.session
                /\ up_log' = IF handled.accepted THEN Append(up_log, up_now) ELSE up_log
          IN  Done(_handle_primary_file(Checked, file, valid, readable, up_now))
    /\ UNCHANGED up_now

UpUploadContractAndData ==
    /\ UploadPageAllowed /\ Len(up_log) < MaxUploads
    /\ up_session.upload_mode = "contract"
    /\ \E file \in UploadFiles, parsed \in BOOLEAN, valid \in BOOLEAN,
          readable \in BOOLEAN :
          LET Done(handled) ==
                /\ up_session' = handled.session
                /\ up_log' = IF handled.accepted THEN Append(up_log, up_now) ELSE up_log
          IN  Done(_process_contract_and_data(Checked, file, parsed, valid, readable))
    /\ UNCHANGED up_now

\* "Order Diagnostics" and the next buttons of steps 2 and 3
UpNextStep ==
    /\ up_session.current_step \in 1..3
    /\ up_session.dataframe # <<>>
    /\ up_session.current_step = 1 =>
          (UploadPageAllowed /\ up_session.upload_mode # "contract")
    /\ up_session' = [(IF up_session.current_step = 1 THEN Checked ELSE up_session)
                        EXCEPT !.current_step = @ + 1]
    /\ UNCHANGED <<up_now, up_log>>

\* the sidebar's step buttons: the completed steps
UpNavStep ==
    /\ \E step \in 1..(up_session.current_step - 1) :
          up_session' = [up_session EXCEPT !.current_step = step]
    /\ UNCHANGED <<up_now, up_log>>

\* app.py, _render_sidebar: "Clear Session" calls reset_session_state()
UpClearSession ==
    /\ up_session' = ResetUploadSession
    /\ UNCHANGED <<up_now, up_log>>

SpecUploadInit ==
    UploadInit /\ CvParked /\ ColParked /\ DateParked /\ EngParked /\ WizParked

SpecUploadNext ==
    (\/ UpTick \/ UpRerun \/ UpChooseMode \/ UpBackToOptions \/ UpUploadPrimaryFile
     \/ UpUploadContractAndData \/ UpNextStep \/ UpNavStep \/ UpClearSession)
    /\ UNCHANGED <<cvVars, colVars, dateVars, engVars, wizVars>>

SpecUpload == SpecUploadInit /\ [][SpecUploadNext]_vars

\* the uploads of the log in the 60 seconds that end with upload i
InWindow(i) ==
    {j \in 1..Len(up_log) :
        up_log[j] > up_log[i] - RATE_WINDOW /\ up_log[j] <= up_log[i]}

\* C29: along every sequence of uploads, navigation and resets of one
\* session, no 60-second window holds more than MAX_UPLOADS_PER_MINUTE
\* uploads that passed validate_upload.
C29_RateLimitAcrossResets ==
    \A i \in 1..Len(up_log) : Cardinality(InWindow(i)) <= MAX_UPLOADS_PER_MINUTE

\* the part of C29 that the code has: the timestamps the session holds
\* after a render of the upload page never exceed the limit, and
\* reset_from_step(1) keeps them
RecordedWithinLimit ==
    /\ Len(check_rate_limit(up_session, up_now).session.upload_timestamps)
          <= MAX_UPLOADS_PER_MINUTE
    /\ reset_from_step(up_session, 1).upload_timestamps = up_session.upload_timestamps

\* the limiter has refused the upload page
RateLimitReached ==
    /\ up_session.current_step = 1
    /\ ~check_rate_limit(up_session, up_now).is_allowed


\* what run_validation returns for the table and the contract of the
\* session, under either hash seed
ResultsOfSession ==
    {run_validation(<<session.dataframe[1]>>, 1, session.contract[1], 0, seed).outcome.value :
        seed \in HashSeeds}

\* what run_remediation returns for the table and the contract of the
\* session: <<>> when it raises, else <<[df, diff]>> with the table itself
RemediationOfSession ==
    LET Value(call) ==
            IF call.outcome.raised THEN <<>>
            ELSE <<[df |-> call.heap[call.outcome.value[1].df],
                    diff |-> call.outcome.value[1].diff]>>
    IN  Value(run_remediation(<<session.dataframe[1]>>, 1, session.contract[1]))

\* the session holds results of a validation or of a remediation
HoldsDownstream ==
    \/ session.validation_results # <<>>
    \/ session.remediated_dataframe # <<>>
    \/ session.remediation_diff # <<>>
    \/ session.remediation_approved

\* C30: in every state of the wizard the validation_results,
\* remediated_dataframe, remediation_diff and remediation_approved that the
\* session holds are those computed from the dataframe and the contract
\* that the session holds now.
C30_DownstreamNeverStale ==
    HoldsDownstream =>
        /\ session.dataframe # <<>> /\ session.contract # <<>>
        /\ session.validation_results # <<>> =>
              session.validation_results \in ResultsOfSession
        /\ (session.remediated_dataframe # <<>> \/ session.remediation_diff # <<>>
                \/ session.remediation_approved) =>
              /\ RemediationOfSession # <<>>
              /\ session.remediated_dataframe = <<RemediationOfSession[1].df>>
              /\ session.remediation_diff = <<RemediationOfSession[1].diff>>
              /\ session.remediation_approved

\* the part of C30 that the code has: a session reset, a new upload on the
\* fresh path and the back button of the results page leave no
\* validation_results behind
ResetsClearResults ==
    [][(ClearSession \/ UploadPrimaryFile \/ Step4Back)
            => (session'.validation_results = <<>>
                \/ session'.validation_results \in
                     {run_validation(<<session'.dataframe[1]>>, 1, session'.contract[1],
                                     0, seed).outcome.value : seed \in HashSeeds})]_vars

\* the results page shows results while the session holds a contract other
\* than the one they were computed from
StaleResultsShown ==
    /\ OnPage(4)
    /\ session.validation_results # <<>>
    /\ session.dataframe # <<>> /\ session.contract # <<>>
    /\ session.validation_results \notin ResultsOfSession

====
